---- MODULE Spec2Model ----
(***************************************************************************)
(* Model of the Cognito auth package: the helper validators and response   *)
(* formatters (utils/helper.ts), the Cognito gateway class                 *)
(* (class/Cognito.ts) and the six Lambda handlers (signup,                 *)
(* verification_code, login, mfa, set_new_password, reset_password).       *)
(* One handler invocation is a run  idle -> awaiting -> done : the Start   *)
(* action of a handler executes the code up to the awaited provider call   *)
(* (or up to an early return), its Resume action receives the provider's   *)
(* reply, runs the rest of the Cognito method and of the handler, and      *)
(* returns.  Strings are TLA+ strings read character by character with     *)
(* SubSeq.  The helper functions are also applied on their own, to inputs  *)
(* drawn from bounded sets (HelperSpec); the progress of an invocation is  *)
(* read under fairness of the provider's answer (LiveSpec); several        *)
(* invocations in flight are interleaved at their awaits (ConcurrentSpec). *)
(* The configuration tool of the sample project (cognito-mcp/server.js)    *)
(* is a second program, with its own state configState (ConfigSpec).       *)
(***************************************************************************)
EXTENDS Integers, Sequences, FiniteSets, TLC

VARIABLES pc, handlerName, event, env, constructed, calls, logs, response, reply,
          input, applied, configState, toolCall, toolResult, savedSinceReset

vars == <<pc, handlerName, event, env, constructed, calls, logs, response, reply,
          input, applied, configState, toolCall, toolResult, savedSinceReset>>

\* The variables of the handlers and helpers, and those of the configuration
\* tool (savedSinceReset is a history variable: the sections named in a
\* save_config call since the last reset_config)
handlerVars == <<pc, handlerName, event, env, constructed, calls, logs, response, reply,
                 input, applied>>

toolVars == <<configState, toolCall, toolResult, savedSinceReset>>

-----------------------------------------------------------------------------
(* Characters and strings                                                  *)

UpperChars == "ABCDEFGHIJKLMNOPQRSTUVWXYZ"
LowerChars == "abcdefghijklmnopqrstuvwxyz"
DigitChars == "0123456789"

CharAt(s, i) == SubSeq(s, i, i)

CharsOf(s) == {CharAt(s, i) : i \in 1..Len(s)}

UpperSet == CharsOf(UpperChars)
LowerSet == CharsOf(LowerChars)
DigitSet == CharsOf(DigitChars)

IsUpper(c) == c \in UpperSet
IsLower(c) == c \in LowerSet
IsDigit(c) == c \in DigitSet

\* \s of a JavaScript regular expression, as far as the inputs use it
IsSpace(c) == c \in {" ", "\t", "\n"}

\* String.prototype.toLowerCase on one character
LowerOf ==
  [c \in UpperSet |->
     CharAt(LowerChars, CHOOSE i \in 1..Len(UpperChars) : CharAt(UpperChars, i) = c)]

LowerChar(c) == IF c \in UpperSet THEN LowerOf[c] ELSE c

\* String.prototype.toLowerCase, halving the string
RECURSIVE ToLower(_)
ToLower(s) ==
  IF Len(s) = 0 THEN ""
  ELSE IF Len(s) = 1 THEN LowerChar(s)
  ELSE ToLower(SubSeq(s, 1, Len(s) \div 2)) \o ToLower(SubSeq(s, (Len(s) \div 2) + 1, Len(s)))

MinOf(S) == CHOOSE i \in S : \A j \in S : i <= j

\* String.prototype.includes
Contains(s, sub) ==
  \E i \in 1..(Len(s) - Len(sub) + 1) : SubSeq(s, i, i + Len(sub) - 1) = sub

ContainsCI(s, sub) == Contains(ToLower(s), ToLower(sub))

\* String.prototype.startsWith
StartsWith(s, prefix) ==
  Len(s) >= Len(prefix) /\ SubSeq(s, 1, Len(prefix)) = prefix

\* String.prototype.trim
RECURSIVE TrimLeft(_)
TrimLeft(s) ==
  IF Len(s) > 0 /\ IsSpace(CharAt(s, 1)) THEN TrimLeft(SubSeq(s, 2, Len(s))) ELSE s

RECURSIVE TrimRight(_)
TrimRight(s) ==
  IF Len(s) > 0 /\ IsSpace(CharAt(s, Len(s))) THEN TrimRight(SubSeq(s, 1, Len(s) - 1)) ELSE s

Trim(s) == TrimRight(TrimLeft(s))

\* The positions at which the lower-case literal pat matches s, ignoring case
MatchesCI(s, pat) ==
  {i \in 1..(Len(s) - Len(pat) + 1) :
     /\ LowerChar(CharAt(s, i)) = CharAt(pat, 1)
     /\ ToLower(SubSeq(s, i, i + Len(pat) - 1)) = pat}

\* s.replace(/pat/gi, rep) for a literal, lower-case pat: the matches are
\* taken left to right, a match starts only after the previous one ends,
\* and the replacement is not rescanned
RECURSIVE ReplaceFrom(_, _, _, _)
ReplaceFrom(s, from, pat, rep) ==
  LET later == {i \in MatchesCI(s, pat) : i >= from}
  IN IF later = {} THEN SubSeq(s, from, Len(s))
     ELSE SubSeq(s, from, MinOf(later) - 1) \o rep
          \o ReplaceFrom(s, MinOf(later) + Len(pat), pat, rep)

ReplaceAllCI(s, pat, rep) == ReplaceFrom(s, 1, pat, rep)

\* s.split(sep) for a one-character separator: the sequence of segments
RECURSIVE Split(_, _)
Split(s, sep) ==
  LET at == {i \in 1..Len(s) : CharAt(s, i) = sep}
  IN IF at = {} THEN <<s>>
     ELSE <<SubSeq(s, 1, MinOf(at) - 1)>> \o Split(SubSeq(s, MinOf(at) + 1, Len(s)), sep)

\* Array.prototype.join
RECURSIVE Join(_, _)
Join(seq, sep) ==
  IF Len(seq) = 0 THEN ""
  ELSE IF Len(seq) = 1 THEN seq[1]
  ELSE seq[1] \o sep \o Join(Tail(seq), sep)

\* Number to decimal text, for non-negative integers
RECURSIVE NumToStr(_)
NumToStr(n) ==
  IF n < 10 THEN CharAt(DigitChars, n + 1)
  ELSE NumToStr(n \div 10) \o CharAt(DigitChars, (n % 10) + 1)

-----------------------------------------------------------------------------
(* JavaScript values: undefined, null, numbers, strings, arrays of         *)
(* strings and objects (ordered property lists).                           *)

Undef == [t |-> "undefined", n |-> 0, s |-> "", items |-> <<>>, props |-> <<>>]
Null == [t |-> "null", n |-> 0, s |-> "", items |-> <<>>, props |-> <<>>]
Num(k) == [t |-> "number", n |-> k, s |-> "", items |-> <<>>, props |-> <<>>]
Str(str) == [t |-> "string", n |-> 0, s |-> str, items |-> <<>>, props |-> <<>>]
Bool(b) == [t |-> "boolean", n |-> IF b THEN 1 ELSE 0, s |-> "", items |-> <<>>, props |-> <<>>]
Arr(strs) == [t |-> "array", n |-> 0, s |-> "", items |-> strs, props |-> <<>>]
Obj(pairs) == [t |-> "object", n |-> 0, s |-> "", items |-> <<>>, props |-> pairs]

\* ToBoolean
Truthy(v) ==
  CASE v.t = "undefined" -> FALSE
    [] v.t = "null" -> FALSE
    [] v.t = "number" -> v.n # 0
    [] v.t = "boolean" -> v.n # 0
    [] v.t = "string" -> v.s # ""
    [] OTHER -> TRUE

\* ToString, as RegExp.prototype.test applies it to its argument
ToStr(v) ==
  CASE v.t = "undefined" -> "undefined"
    [] v.t = "null" -> "null"
    [] v.t = "number" -> NumToStr(v.n)
    [] v.t = "boolean" -> (IF v.n # 0 THEN "true" ELSE "false")
    [] v.t = "string" -> v.s
    [] v.t = "array" -> Join(v.items, ",")
    [] OTHER -> "[object Object]"

\* typeof v === 'string'
IsString(v) == v.t = "string"

\* v.length: defined for strings and arrays only
HasLength(v) == v.t \in {"string", "array"}
LengthOf(v) == IF v.t = "string" THEN Len(v.s) ELSE Len(v.items)

\* v[name] for a property name other than length; reading a property of
\* null or undefined throws a TypeError, which the caller must test first
CanReadProps(v) == v.t \notin {"undefined", "null"}

GetProp(v, name) ==
  IF v.t = "object" /\ \E i \in 1..Len(v.props) : v.props[i][1] = name
    THEN v.props[CHOOSE i \in 1..Len(v.props) : v.props[i][1] = name][2]
    ELSE Undef

\* EscapeJson that leaves the backslash as it is
RECURSIVE EscapeJson_QuotesOnly(_)
EscapeJson_QuotesOnly(s) ==
  LET at == {i \in 1..Len(s) : CharAt(s, i) \in {"\"", "\n", "\t"}}
      c == CharAt(s, MinOf(at))
  IN IF at = {} THEN s
     ELSE SubSeq(s, 1, MinOf(at) - 1)
          \o (CASE c = "\"" -> "\\\""
                [] c = "\n" -> "\\n"
                [] OTHER -> "\\t")
          \o EscapeJson_QuotesOnly(SubSeq(s, MinOf(at) + 1, Len(s)))

\* JSON.stringify's string quoting
RECURSIVE EscapeJson(_)
EscapeJson(s) ==
  LET at == {i \in 1..Len(s) : CharAt(s, i) \in {"\"", "\\", "\n", "\t"}}
      c == CharAt(s, MinOf(at))
  IN IF at = {} THEN s
     ELSE SubSeq(s, 1, MinOf(at) - 1)
          \o (CASE c = "\"" -> "\\\""
                [] c = "\\" -> "\\\\"
                [] c = "\n" -> "\\n"
                [] OTHER -> "\\t")
          \o EscapeJson(SubSeq(s, MinOf(at) + 1, Len(s)))

Quote(s) == "\"" \o EscapeJson(s) \o "\""

RECURSIVE QuoteAll(_)
QuoteAll(strs) == IF Len(strs) = 0 THEN <<>> ELSE <<Quote(Head(strs))>> \o QuoteAll(Tail(strs))

\* JSON.stringify: properties whose value is undefined are left out
RECURSIVE JSONStringify(_)
RECURSIVE StringifyProps(_)
StringifyProps(pairs) ==
  IF Len(pairs) = 0 THEN <<>>
  ELSE (IF pairs[1][2].t = "undefined" THEN <<>>
        ELSE <<Quote(pairs[1][1]) \o ":" \o JSONStringify(pairs[1][2])>>)
       \o StringifyProps(Tail(pairs))

JSONStringify(v) ==
  CASE v.t = "null" -> "null"
    [] v.t = "number" -> NumToStr(v.n)
    [] v.t = "boolean" -> (IF v.n # 0 THEN "true" ELSE "false")
    [] v.t = "string" -> Quote(v.s)
    [] v.t = "array" -> "[" \o Join(QuoteAll(v.items), ",") \o "]"
    [] v.t = "object" -> "{" \o Join(StringifyProps(v.props), ",") \o "}"
    [] OTHER -> "undefined"

\* An Error object: new Error(message) has name 'Error'
NewError(message) == [name |-> "Error", message |-> message]

\* a?.name : undefined when a is null or undefined
OptProp(v, name) == IF CanReadProps(v) THEN GetProp(v, name) ELSE Undef

\* a || b
OrElse(v, d) == IF Truthy(v) THEN v ELSE d

\* The TypeError of reading property name of null
NullPropertyError(name) ==
  [name |-> "TypeError",
   message |-> "Cannot read properties of null (reading '" \o name \o "')"]

-----------------------------------------------------------------------------
(* utils/helper.ts                                                         *)

MinPasswordLength == 12

HasCharWhere(s, Test(_)) == \E i \in 1..Len(s) : Test(CharAt(s, i))

\* IsSymbol with the digits counted as symbols
IsSymbol_NotLetter(c) == ~IsUpper(c) /\ ~IsLower(c)

IsSymbol(c) == ~IsUpper(c) /\ ~IsLower(c) /\ ~IsDigit(c)

\* validatePasswordErrors stopping at the first violated rule
validatePasswordErrors_FirstOnly(password) ==
  IF ~Truthy(password) \/ (HasLength(password) /\ LengthOf(password) < MinPasswordLength)
    THEN <<"Password must be at least 12 characters">>
  ELSE IF ~HasCharWhere(ToStr(password), IsUpper)
    THEN <<"Password must contain uppercase letters">>
  ELSE IF ~HasCharWhere(ToStr(password), IsLower)
    THEN <<"Password must contain lowercase letters">>
  ELSE IF ~HasCharWhere(ToStr(password), IsDigit)
    THEN <<"Password must contain numbers">>
  ELSE IF ~HasCharWhere(ToStr(password), IsSymbol)
    THEN <<"Password must contain symbols">>
  ELSE <<>>

validatePasswordErrors(password) ==
  (IF ~Truthy(password) \/ (HasLength(password) /\ LengthOf(password) < MinPasswordLength)
     THEN <<"Password must be at least 12 characters">> ELSE <<>>)
  \o (IF ~HasCharWhere(ToStr(password), IsUpper)
        THEN <<"Password must contain uppercase letters">> ELSE <<>>)
  \o (IF ~HasCharWhere(ToStr(password), IsLower)
        THEN <<"Password must contain lowercase letters">> ELSE <<>>)
  \o (IF ~HasCharWhere(ToStr(password), IsDigit)
        THEN <<"Password must contain numbers">> ELSE <<>>)
  \o (IF ~HasCharWhere(ToStr(password), IsSymbol)
        THEN <<"Password must contain symbols">> ELSE <<>>)

validatePassword(password) ==
  [valid |-> Len(validatePasswordErrors(password)) = 0,
   errors |-> validatePasswordErrors(password)]

\* IsLocalChar with white space allowed
IsLocalChar_AnyButAt(c) == c # "@"

\* [^\s@]
IsLocalChar(c) == ~IsSpace(c) /\ c # "@"

\* /^[^\s@]+@[^\s@]+\.[^\s@]+$/ : an '@' at p and a '.' at q, at least one
\* character before p, between p and q and after q, and no whitespace or
\* '@' anywhere but at p
emailRegexTest(s) ==
  \E p \in 2..Len(s) : \E q \in (p + 2)..(Len(s) - 1) :
    /\ CharAt(s, p) = "@"
    /\ CharAt(s, q) = "."
    /\ \A i \in (1..Len(s)) \ {p} : IsLocalChar(CharAt(s, i))

validateEmail(email) ==
  IF ~Truthy(email) THEN FALSE ELSE emailRegexTest(ToStr(email))

\* ResponseHeaders without the CORS header
ResponseHeaders_NoCors == << <<"Content-Type", "application/json">> >>

ResponseHeaders ==
  <<<<"Content-Type", "application/json">>, <<"Access-Control-Allow-Origin", "*">>>>

Redacted == "[REDACTED]"

sanitizedMessage(message) ==
  ReplaceAllCI(ReplaceAllCI(ReplaceAllCI(message, "password", Redacted),
                            "token", Redacted),
               "session", Redacted)

formatErrorResponse(error, statusCode) ==
  [statusCode |-> statusCode,
   headers |-> ResponseHeaders,
   body |-> JSONStringify(Obj(<<
     <<"error", Obj(<<
        <<"code", Str(IF error.name # "" THEN error.name ELSE "InternalError")>>,
        <<"message", Str(sanitizedMessage(error.message))>> >>)>> >>))]

formatSuccessResponse(data, statusCode) ==
  [statusCode |-> statusCode,
   headers |-> ResponseHeaders,
   body |-> JSONStringify(data)]


-----------------------------------------------------------------------------
(* class/Cognito.ts: each method builds one command, sends it to the       *)
(* provider and shapes the provider's output.                              *)

\* Object.entries
ObjectEntries(v) ==
  CASE v.t = "object" -> v.props
    [] v.t = "string" -> [i \in 1..Len(v.s) |-> <<NumToStr(i - 1), Str(CharAt(v.s, i))>>]
    [] OTHER -> <<>>

AttributeList(entries) ==
  [i \in 1..Len(entries) |-> Obj(<< <<"Name", Str(entries[i][1])>>, <<"Value", entries[i][2]>> >>)]

signUpCommand(config, params) ==
  [name |-> "SignUpCommand",
   input |-> << <<"ClientId", config.clientId>>,
                <<"Username", GetProp(params, "username")>>,
                <<"Password", GetProp(params, "password")>>,
                <<"UserAttributes",
                  <<Obj(<< <<"Name", Str("email")>>, <<"Value", GetProp(params, "email")>> >>)>>
                  \o (IF Truthy(GetProp(params, "attributes"))
                        THEN AttributeList(ObjectEntries(GetProp(params, "attributes")))
                        ELSE <<>>)>> >>]

signUpResult(output) ==
  Obj(<< <<"userSub", GetProp(output, "UserSub")>>,
         <<"codeDeliveryDetails", Obj(<<
            <<"destination", OrElse(OptProp(GetProp(output, "CodeDeliveryDetails"), "Destination"), Str(""))>>,
            <<"deliveryMedium", OrElse(OptProp(GetProp(output, "CodeDeliveryDetails"), "DeliveryMedium"), Str(""))>>,
            <<"attributeName", OrElse(OptProp(GetProp(output, "CodeDeliveryDetails"), "AttributeName"), Str(""))>> >>)>> >>)

verifyCodeCommand(config, params) ==
  [name |-> "ConfirmSignUpCommand",
   input |-> << <<"ClientId", config.clientId>>,
                <<"Username", GetProp(params, "username")>>,
                <<"ConfirmationCode", GetProp(params, "code")>> >>]

loginCommand(config, params) ==
  [name |-> "InitiateAuthCommand",
   input |-> << <<"ClientId", config.clientId>>,
                <<"AuthFlow", Str("USER_PASSWORD_AUTH")>>,
                <<"AuthParameters", Obj(<< <<"USERNAME", GetProp(params, "username")>>,
                                           <<"PASSWORD", GetProp(params, "password")>> >>)>> >>]

\* The token bundle both login and confirmMFA build from the provider output
LoginResponse(output) ==
  Obj(<< <<"accessToken", OrElse(OptProp(GetProp(output, "AuthenticationResult"), "AccessToken"), Str(""))>>,
         <<"idToken", OrElse(OptProp(GetProp(output, "AuthenticationResult"), "IdToken"), Str(""))>>,
         <<"refreshToken", OrElse(OptProp(GetProp(output, "AuthenticationResult"), "RefreshToken"), Str(""))>>,
         <<"expiresIn", OrElse(OptProp(GetProp(output, "AuthenticationResult"), "ExpiresIn"), Num(0))>>,
         <<"tokenType", OrElse(OptProp(GetProp(output, "AuthenticationResult"), "TokenType"), Str("Bearer"))>> >>)

MfaRequiredPrefix == "MFA_REQUIRED:"

\* What Cognito.login does with the provider's output: it throws when the
\* output names a challenge, and returns the token bundle otherwise
loginOutcome(output) ==
  IF Truthy(GetProp(output, "ChallengeName"))
    THEN [threw |-> TRUE,
          error |-> NewError(MfaRequiredPrefix \o ToStr(GetProp(output, "Session"))),
          result |-> Undef]
    ELSE [threw |-> FALSE, error |-> NewError(""), result |-> LoginResponse(output)]

confirmMFACommand(config, params) ==
  [name |-> "RespondToAuthChallengeCommand",
   input |-> << <<"ClientId", config.clientId>>,
                <<"ChallengeName", Str("SMS_MFA")>>,
                <<"Session", GetProp(params, "session")>>,
                <<"ChallengeResponses", Obj(<< <<"USERNAME", GetProp(params, "username")>>,
                                               <<"SMS_MFA_CODE", GetProp(params, "mfaCode")>> >>)>> >>]

setNewPasswordCommand(config, params) ==
  [name |-> "ChangePasswordCommand",
   input |-> << <<"PreviousPassword", GetProp(params, "previousPassword")>>,
                <<"ProposedPassword", GetProp(params, "proposedPassword")>>,
                <<"AccessToken", GetProp(params, "session")>> >>]

resetPasswordCommand(config, params) ==
  [name |-> "ConfirmForgotPasswordCommand",
   input |-> << <<"ClientId", config.clientId>>,
                <<"Username", GetProp(params, "username")>>,
                <<"ConfirmationCode", GetProp(params, "code")>>,
                <<"Password", GetProp(params, "newPassword")>> >>]

\* initiatePasswordReset takes the username itself, not a parameter record
initiatePasswordResetCommand(config, username) ==
  [name |-> "ForgotPasswordCommand",
   input |-> << <<"ClientId", config.clientId>>, <<"Username", username>> >>]

-----------------------------------------------------------------------------
(* What the handlers share                                                 *)

NoResponse == [statusCode |-> 0, headers |-> <<>>, body |-> ""]

\* JSONParse with the empty body taken for the text 'null'
JSONParse_EmptyAsNull(body) ==
  [threw |-> body.syntax = "malformed",
   value |-> IF body.syntax = "empty" THEN Null ELSE body.value]

\* JSON.parse of the event body: a SyntaxError for the empty string and for
\* text that is not JSON, the value the text denotes otherwise
JSONParse(body) == [threw |-> body.syntax # "json", value |-> body.value]

LogLine(level, label, fields) == [level |-> level, label |-> label, fields |-> fields]

\* The outcome of the part of a handler that runs before the provider is
\* awaited: it has returned, or it has constructed the gateway and made
\* one call
Returned(resp, lines) ==
  [done |-> TRUE, response |-> resp, logs |-> lines, constructed |-> FALSE, calls |-> <<>>]

\* Dispatched with the call made a second time
Dispatched_Retried(op, params, command) ==
  [done |-> FALSE, response |-> NoResponse, logs |-> <<>>, constructed |-> TRUE,
   calls |-> <<[op |-> op, params |-> params, command |-> command],
               [op |-> op, params |-> params, command |-> command]>>]

Dispatched(op, params, command) ==
  [done |-> FALSE, response |-> NoResponse, logs |-> <<>>, constructed |-> TRUE,
   calls |-> <<[op |-> op, params |-> params, command |-> command]>>]

\* The Cognito configuration a handler reads from process.env
CognitoConfig(e) ==
  [userPoolId |-> e.USER_POOL_ID,
   clientId |-> e.CLIENT_ID,
   region |-> OrElse(OrElse(e.REGION, e.AWS_REGION), Str("us-east-1"))]

\* ConfigMissing with && in place of ||
ConfigMissing_BothUnset(e) == ~Truthy(e.USER_POOL_ID) /\ ~Truthy(e.CLIENT_ID)

ConfigMissing(e) == ~Truthy(e.USER_POOL_ID) \/ ~Truthy(e.CLIENT_ID)

InvalidBodyMessage == "Invalid request body: must be valid JSON"

ConfigErrorMessage == "Server configuration error: missing Cognito configuration"

ContextFields(ev) ==
  << <<"requestId", Str(ev.requestContext.requestId)>>,
     <<"sourceIp", Str(ev.requestContext.identity.sourceIp)>> >>

InvalidJsonReturn(ev, label) ==
  Returned(formatErrorResponse(NewError(InvalidBodyMessage), 400),
           <<LogLine("error", label,
                     ContextFields(ev) \o << <<"error", Str("Failed to parse request body")>> >>)>>)

ConfigErrorReturn(ev, e, label) ==
  Returned(formatErrorResponse(NewError(ConfigErrorMessage), 500),
           <<LogLine("error", label,
                     << <<"requestId", Str(ev.requestContext.requestId)>>,
                        <<"hasUserPoolId", Bool(Truthy(e.USER_POOL_ID))>>,
                        <<"hasClientId", Bool(Truthy(e.CLIENT_ID))>> >>)>>)

\* MapError whose fallback passes the provider's text on
RECURSIVE MapError_EchoMessage(_, _, _)
MapError_EchoMessage(table, fallback, error) ==
  IF Len(table) = 0 THEN formatErrorResponse(NewError(error.message), 500)
  ELSE IF error.name = table[1][1]
    THEN formatErrorResponse(NewError(table[1][2]), table[1][3])
    ELSE MapError_EchoMessage(Tail(table), fallback, error)

\* The if-chain of a catch block: rows <<error name, message, status>> in
\* the order of the code, the first row with the error's name wins
RECURSIVE MapError(_, _, _)
MapError(table, fallback, error) ==
  IF Len(table) = 0 THEN formatErrorResponse(NewError(fallback), 500)
  ELSE IF error.name = table[1][1]
    THEN formatErrorResponse(NewError(table[1][2]), table[1][3])
    ELSE MapError(Tail(table), fallback, error)

CatchLog(ev, label, error) ==
  LogLine("error", label,
          ContextFields(ev) \o << <<"errorName", Str(error.name)>>,
                                  <<"errorMessage", Str(error.message)>> >>)


-----------------------------------------------------------------------------
(* handlers/signup.ts                                                      *)

signupErrorTable ==
  << <<"UsernameExistsException", "An account with this username already exists", 409>>,
     <<"InvalidPasswordException", "Password does not meet requirements", 400>>,
     <<"InvalidParameterException", "Invalid parameter provided", 400>>,
     <<"TooManyRequestsException", "Too many requests. Please try again later", 429>>,
     <<"LimitExceededException", "Account creation limit exceeded. Please try again later", 429>> >>

signupCatch(ev, error) ==
  [response |-> MapError(signupErrorTable, "An unexpected error occurred during signup", error),
   logs |-> <<CatchLog(ev, "Signup error:", error)>>]

signupMissingFields(requestBody) ==
  \/ ~Truthy(GetProp(requestBody, "username"))
  \/ ~Truthy(GetProp(requestBody, "password"))
  \/ ~Truthy(GetProp(requestBody, "email"))

signupParams(requestBody) ==
  Obj(<< <<"username", GetProp(requestBody, "username")>>,
         <<"password", GetProp(requestBody, "password")>>,
         <<"email", GetProp(requestBody, "email")>>,
         <<"attributes", GetProp(requestBody, "attributes")>> >>)

signupStart(ev, e) ==
  LET requestBody == JSONParse(ev.body).value IN
  IF JSONParse(ev.body).threw THEN InvalidJsonReturn(ev, "Signup error - Invalid JSON:")
  ELSE IF ~CanReadProps(requestBody)
    THEN Returned(signupCatch(ev, NullPropertyError("username")).response,
                  signupCatch(ev, NullPropertyError("username")).logs)
  ELSE IF signupMissingFields(requestBody)
    THEN Returned(
      formatErrorResponse(
        NewError("Missing required fields: username, password, and email are required"), 400),
      <<LogLine("error", "Signup error - Missing required fields:",
                ContextFields(ev) \o
                << <<"hasUsername", Bool(Truthy(GetProp(requestBody, "username")))>>,
                   <<"hasPassword", Bool(Truthy(GetProp(requestBody, "password")))>>,
                   <<"hasEmail", Bool(Truthy(GetProp(requestBody, "email")))>> >>)>>)
  ELSE IF ~validateEmail(GetProp(requestBody, "email"))
    THEN Returned(
      formatErrorResponse(NewError("Invalid email format"), 400),
      <<LogLine("error", "Signup error - Invalid email format:",
                ContextFields(ev) \o << <<"username", GetProp(requestBody, "username")>> >>)>>)
  ELSE IF ~validatePassword(GetProp(requestBody, "password")).valid
    THEN Returned(
      formatErrorResponse(
        NewError("Password validation failed: "
                 \o Join(validatePassword(GetProp(requestBody, "password")).errors, ", ")), 400),
      <<LogLine("error", "Signup error - Password validation failed:",
                ContextFields(ev) \o
                << <<"username", GetProp(requestBody, "username")>>,
                   <<"errors", Arr(validatePassword(GetProp(requestBody, "password")).errors)>> >>)>>)
  ELSE IF ConfigMissing(e)
    THEN ConfigErrorReturn(ev, e, "Signup error - Missing environment variables:")
  ELSE Dispatched("signUp", signupParams(requestBody),
                  signUpCommand(CognitoConfig(e), signupParams(requestBody)))

signupResume(ev, rep) ==
  LET requestBody == JSONParse(ev.body).value
      result == signUpResult(rep.output)
  IN IF rep.ok
       THEN [response |-> formatSuccessResponse(result, 200),
             logs |-> <<LogLine("log", "Signup successful:",
                         ContextFields(ev) \o
                         << <<"username", GetProp(requestBody, "username")>>,
                            <<"userSub", GetProp(result, "userSub")>>,
                            <<"deliveryMedium",
                              GetProp(GetProp(result, "codeDeliveryDetails"), "deliveryMedium")>> >>)>>]
       ELSE signupCatch(ev, rep.error)

-----------------------------------------------------------------------------
(* handlers/verification_code.ts                                           *)

verifyErrorTable ==
  << <<"CodeMismatchException", "Invalid verification code", 400>>,
     <<"ExpiredCodeException", "Verification code has expired", 400>>,
     <<"UserNotFoundException", "User not found", 404>>,
     <<"NotAuthorizedException", "User is already confirmed", 400>>,
     <<"TooManyFailedAttemptsException", "Too many failed attempts. Please try again later", 429>>,
     <<"TooManyRequestsException", "Too many requests. Please try again later", 429>>,
     <<"LimitExceededException", "Verification limit exceeded. Please try again later", 429>> >>

verifyCatch(ev, error) ==
  [response |-> MapError(verifyErrorTable, "An unexpected error occurred during verification", error),
   logs |-> <<CatchLog(ev, "Verification error:", error)>>]

verifyMissingFields(requestBody) ==
  \/ ~Truthy(GetProp(requestBody, "username"))
  \/ ~Truthy(GetProp(requestBody, "code"))

verifyBadCodeFormat(requestBody) ==
  \/ ~IsString(GetProp(requestBody, "code"))
  \/ Len(Trim(GetProp(requestBody, "code").s)) = 0

verifyParams(requestBody) ==
  Obj(<< <<"username", GetProp(requestBody, "username")>>,
         <<"code", Str(Trim(GetProp(requestBody, "code").s))>> >>)

verifyStart(ev, e) ==
  LET requestBody == JSONParse(ev.body).value IN
  IF JSONParse(ev.body).threw THEN InvalidJsonReturn(ev, "Verification error - Invalid JSON:")
  ELSE IF ~CanReadProps(requestBody)
    THEN Returned(verifyCatch(ev, NullPropertyError("username")).response,
                  verifyCatch(ev, NullPropertyError("username")).logs)
  ELSE IF verifyMissingFields(requestBody)
    THEN Returned(
      formatErrorResponse(
        NewError("Missing required fields: username and code are required"), 400),
      <<LogLine("error", "Verification error - Missing required fields:",
                ContextFields(ev) \o
                << <<"hasUsername", Bool(Truthy(GetProp(requestBody, "username")))>>,
                   <<"hasCode", Bool(Truthy(GetProp(requestBody, "code")))>> >>)>>)
  ELSE IF verifyBadCodeFormat(requestBody)
    THEN Returned(
      formatErrorResponse(NewError("Invalid verification code format"), 400),
      <<LogLine("error", "Verification error - Invalid code format:",
                ContextFields(ev) \o << <<"username", GetProp(requestBody, "username")>> >>)>>)
  ELSE IF ConfigMissing(e)
    THEN ConfigErrorReturn(ev, e, "Verification error - Missing environment variables:")
  ELSE Dispatched("verifyCode", verifyParams(requestBody),
                  verifyCodeCommand(CognitoConfig(e), verifyParams(requestBody)))

verifyResume(ev, rep) ==
  LET requestBody == JSONParse(ev.body).value IN
  IF rep.ok
    THEN [response |-> formatSuccessResponse(
                         Obj(<< <<"message", Str("User verification successful")>> >>), 200),
          logs |-> <<LogLine("log", "Verification successful:",
                      ContextFields(ev) \o << <<"username", GetProp(requestBody, "username")>> >>)>>]
    ELSE verifyCatch(ev, rep.error)

-----------------------------------------------------------------------------
(* handlers/login.ts                                                       *)

loginErrorTable ==
  << <<"NotAuthorizedException", "Incorrect username or password", 401>>,
     <<"UserNotConfirmedException", "User account is not confirmed. Please verify your email", 403>>,
     <<"UserNotFoundException", "Incorrect username or password", 401>>,
     <<"InvalidParameterException", "Invalid parameter provided", 400>>,
     <<"TooManyRequestsException", "Too many requests. Please try again later", 429>>,
     <<"PasswordResetRequiredException", "Password reset required. Please reset your password", 403>>,
     <<"UserLambdaValidationException", "User validation failed", 403>> >>

\* error.message && error.message.startsWith('MFA_REQUIRED:')
loginIsMfaChallenge(error) ==
  error.message # "" /\ StartsWith(error.message, MfaRequiredPrefix)

\* error.message.split(':')[1]
loginChallengeSession(error) == Split(error.message, ":")[2]

loginCatch(ev, error) ==
  IF loginIsMfaChallenge(error)
    THEN [response |-> formatSuccessResponse(
                         Obj(<< <<"challengeName", Str("MFA_REQUIRED")>>,
                                <<"session", Str(loginChallengeSession(error))>>,
                                <<"message", Str("MFA verification required. Please provide MFA code.")>> >>),
                         200),
          logs |-> <<CatchLog(ev, "Login error:", error),
                     LogLine("log", "Login requires MFA:", ContextFields(ev))>>]
    ELSE [response |-> MapError(loginErrorTable, "An unexpected error occurred during login", error),
          logs |-> <<CatchLog(ev, "Login error:", error)>>]

loginMissingFields(requestBody) ==
  \/ ~Truthy(GetProp(requestBody, "username"))
  \/ ~Truthy(GetProp(requestBody, "password"))

loginParams(requestBody) ==
  Obj(<< <<"username", GetProp(requestBody, "username")>>,
         <<"password", GetProp(requestBody, "password")>> >>)

loginStart(ev, e) ==
  LET requestBody == JSONParse(ev.body).value IN
  IF JSONParse(ev.body).threw THEN InvalidJsonReturn(ev, "Login error - Invalid JSON:")
  ELSE IF ~CanReadProps(requestBody)
    THEN Returned(loginCatch(ev, NullPropertyError("username")).response,
                  loginCatch(ev, NullPropertyError("username")).logs)
  ELSE IF loginMissingFields(requestBody)
    THEN Returned(
      formatErrorResponse(
        NewError("Missing required fields: username and password are required"), 400),
      <<LogLine("error", "Login error - Missing required fields:",
                ContextFields(ev) \o
                << <<"hasUsername", Bool(Truthy(GetProp(requestBody, "username")))>>,
                   <<"hasPassword", Bool(Truthy(GetProp(requestBody, "password")))>> >>)>>)
  ELSE IF ConfigMissing(e)
    THEN ConfigErrorReturn(ev, e, "Login error - Missing environment variables:")
  ELSE Dispatched("login", loginParams(requestBody),
                  loginCommand(CognitoConfig(e), loginParams(requestBody)))

loginResume(ev, rep) ==
  LET requestBody == JSONParse(ev.body).value
      outcome == loginOutcome(rep.output)
  IN IF ~rep.ok THEN loginCatch(ev, rep.error)
     ELSE IF outcome.threw THEN loginCatch(ev, outcome.error)
     ELSE [response |-> formatSuccessResponse(outcome.result, 200),
           logs |-> <<LogLine("log", "Login successful:",
                       ContextFields(ev) \o
                       << <<"username", GetProp(requestBody, "username")>>,
                          <<"tokenType", GetProp(outcome.result, "tokenType")>>,
                          <<"expiresIn", GetProp(outcome.result, "expiresIn")>> >>)>>]


-----------------------------------------------------------------------------
(* handlers/mfa.ts                                                         *)

\* mfaErrorTable with the code mismatch answered as verify answers it
mfaErrorTable_MismatchAsVerify ==
  << <<"CodeMismatchException", "Invalid verification code", 400>>,
     <<"ExpiredCodeException", "MFA code has expired. Please request a new code", 401>>,
     <<"NotAuthorizedException", "Invalid session or MFA code", 401>>,
     <<"InvalidParameterException", "Invalid parameter provided", 400>>,
     <<"TooManyRequestsException", "Too many requests. Please try again later", 429>>,
     <<"UserNotFoundException", "User not found", 404>>,
     <<"UserNotConfirmedException", "User account is not confirmed. Please verify your email", 403>> >>

mfaErrorTable ==
  << <<"CodeMismatchException", "Invalid MFA code provided", 401>>,
     <<"ExpiredCodeException", "MFA code has expired. Please request a new code", 401>>,
     <<"NotAuthorizedException", "Invalid session or MFA code", 401>>,
     <<"InvalidParameterException", "Invalid parameter provided", 400>>,
     <<"TooManyRequestsException", "Too many requests. Please try again later", 429>>,
     <<"UserNotFoundException", "User not found", 404>>,
     <<"UserNotConfirmedException", "User account is not confirmed. Please verify your email", 403>> >>

mfaCatch(ev, error) ==
  [response |-> MapError(mfaErrorTable, "An unexpected error occurred during MFA verification", error),
   logs |-> <<CatchLog(ev, "MFA error:", error)>>]

mfaMissingFields(requestBody) ==
  \/ ~Truthy(GetProp(requestBody, "session"))
  \/ ~Truthy(GetProp(requestBody, "mfaCode"))
  \/ ~Truthy(GetProp(requestBody, "username"))

mfaParams(requestBody) ==
  Obj(<< <<"session", GetProp(requestBody, "session")>>,
         <<"mfaCode", GetProp(requestBody, "mfaCode")>>,
         <<"username", GetProp(requestBody, "username")>> >>)

mfaStart(ev, e) ==
  LET requestBody == JSONParse(ev.body).value IN
  IF JSONParse(ev.body).threw THEN InvalidJsonReturn(ev, "MFA error - Invalid JSON:")
  ELSE IF ~CanReadProps(requestBody)
    THEN Returned(mfaCatch(ev, NullPropertyError("session")).response,
                  mfaCatch(ev, NullPropertyError("session")).logs)
  ELSE IF mfaMissingFields(requestBody)
    THEN Returned(
      formatErrorResponse(
        NewError("Missing required fields: session, mfaCode, and username are required"), 400),
      <<LogLine("error", "MFA error - Missing required fields:",
                ContextFields(ev) \o
                << <<"hasSession", Bool(Truthy(GetProp(requestBody, "session")))>>,
                   <<"hasMfaCode", Bool(Truthy(GetProp(requestBody, "mfaCode")))>>,
                   <<"hasUsername", Bool(Truthy(GetProp(requestBody, "username")))>> >>)>>)
  ELSE IF ConfigMissing(e)
    THEN ConfigErrorReturn(ev, e, "MFA error - Missing environment variables:")
  ELSE Dispatched("confirmMFA", mfaParams(requestBody),
                  confirmMFACommand(CognitoConfig(e), mfaParams(requestBody)))

mfaResume(ev, rep) ==
  LET requestBody == JSONParse(ev.body).value
      result == LoginResponse(rep.output)
  IN IF rep.ok
       THEN [response |-> formatSuccessResponse(result, 200),
             logs |-> <<LogLine("log", "MFA verification successful:",
                         ContextFields(ev) \o
                         << <<"username", GetProp(requestBody, "username")>>,
                            <<"tokenType", GetProp(result, "tokenType")>>,
                            <<"expiresIn", GetProp(result, "expiresIn")>> >>)>>]
       ELSE mfaCatch(ev, rep.error)

-----------------------------------------------------------------------------
(* handlers/set_new_password.ts                                            *)

setPasswordErrorTable ==
  << <<"NotAuthorizedException", "Invalid previous password or session", 401>>,
     <<"InvalidPasswordException", "New password does not meet requirements", 400>>,
     <<"InvalidParameterException", "Invalid parameter provided", 400>>,
     <<"LimitExceededException", "Attempt limit exceeded. Please try again later", 429>>,
     <<"TooManyRequestsException", "Too many requests. Please try again later", 429>>,
     <<"UserNotFoundException", "User not found", 404>>,
     <<"UserNotConfirmedException", "User account is not confirmed. Please verify your email", 403>> >>

setPasswordCatch(ev, error) ==
  [response |-> MapError(setPasswordErrorTable,
                         "An unexpected error occurred during password change", error),
   logs |-> <<CatchLog(ev, "Set password error:", error)>>]

setPasswordMissingFields(requestBody) ==
  \/ ~Truthy(GetProp(requestBody, "username"))
  \/ ~Truthy(GetProp(requestBody, "previousPassword"))
  \/ ~Truthy(GetProp(requestBody, "proposedPassword"))
  \/ ~Truthy(GetProp(requestBody, "session"))

setPasswordParams(requestBody) ==
  Obj(<< <<"username", GetProp(requestBody, "username")>>,
         <<"previousPassword", GetProp(requestBody, "previousPassword")>>,
         <<"proposedPassword", GetProp(requestBody, "proposedPassword")>>,
         <<"session", GetProp(requestBody, "session")>> >>)

setPasswordStart(ev, e) ==
  LET requestBody == JSONParse(ev.body).value IN
  IF JSONParse(ev.body).threw THEN InvalidJsonReturn(ev, "Set password error - Invalid JSON:")
  ELSE IF ~CanReadProps(requestBody)
    THEN Returned(setPasswordCatch(ev, NullPropertyError("username")).response,
                  setPasswordCatch(ev, NullPropertyError("username")).logs)
  ELSE IF setPasswordMissingFields(requestBody)
    THEN Returned(
      formatErrorResponse(
        NewError("Missing required fields: username, previousPassword, proposedPassword, and session are required"),
        400),
      <<LogLine("error", "Set password error - Missing required fields:",
                ContextFields(ev) \o
                << <<"hasUsername", Bool(Truthy(GetProp(requestBody, "username")))>>,
                   <<"hasPreviousPassword", Bool(Truthy(GetProp(requestBody, "previousPassword")))>>,
                   <<"hasProposedPassword", Bool(Truthy(GetProp(requestBody, "proposedPassword")))>>,
                   <<"hasSession", Bool(Truthy(GetProp(requestBody, "session")))>> >>)>>)
  ELSE IF ~validatePassword(GetProp(requestBody, "proposedPassword")).valid
    THEN Returned(
      formatErrorResponse(
        NewError("Password does not meet requirements: "
                 \o Join(validatePassword(GetProp(requestBody, "proposedPassword")).errors, ", ")), 400),
      <<LogLine("error", "Set password error - Password validation failed:",
                ContextFields(ev) \o
                << <<"username", GetProp(requestBody, "username")>>,
                   <<"errors", Arr(validatePassword(GetProp(requestBody, "proposedPassword")).errors)>> >>)>>)
  ELSE IF ConfigMissing(e)
    THEN ConfigErrorReturn(ev, e, "Set password error - Missing environment variables:")
  ELSE Dispatched("setNewPassword", setPasswordParams(requestBody),
                  setNewPasswordCommand(CognitoConfig(e), setPasswordParams(requestBody)))

setPasswordResume(ev, rep) ==
  LET requestBody == JSONParse(ev.body).value IN
  IF rep.ok
    THEN [response |-> formatSuccessResponse(
                         Obj(<< <<"message", Str("Password changed successfully")>> >>), 200),
          logs |-> <<LogLine("log", "Password change successful:",
                      ContextFields(ev) \o << <<"username", GetProp(requestBody, "username")>> >>)>>]
    ELSE setPasswordCatch(ev, rep.error)

-----------------------------------------------------------------------------
(* handlers/reset_password.ts                                              *)

resetErrorTable ==
  << <<"UserNotFoundException", "User not found", 404>>,
     <<"CodeMismatchException", "Invalid verification code", 400>>,
     <<"ExpiredCodeException", "Verification code has expired. Please request a new code", 400>>,
     <<"InvalidPasswordException", "New password does not meet requirements", 400>>,
     <<"InvalidParameterException", "Invalid parameter provided", 400>>,
     <<"LimitExceededException", "Attempt limit exceeded. Please try again later", 429>>,
     <<"TooManyRequestsException", "Too many requests. Please try again later", 429>>,
     <<"TooManyFailedAttemptsException", "Too many failed attempts. Please try again later", 429>>,
     <<"NotAuthorizedException", "Password reset not authorized for this user", 403>>,
     <<"UserNotConfirmedException", "User account is not confirmed. Please verify your email first", 403>> >>

resetCatch(ev, error) ==
  [response |-> MapError(resetErrorTable,
                         "An unexpected error occurred during password reset", error),
   logs |-> <<CatchLog(ev, "Reset password error:", error)>>]

\* resetInvalidOperation that refuses the absent operation only
resetInvalidOperation_AbsentOnly(operation) == ~Truthy(operation)

\* !operation || (operation !== 'initiate' && operation !== 'confirm')
resetInvalidOperation(operation) ==
  \/ ~Truthy(operation)
  \/ (operation # Str("initiate") /\ operation # Str("confirm"))

resetConfirmMissingFields(requestBody) ==
  \/ ~Truthy(GetProp(requestBody, "code"))
  \/ ~Truthy(GetProp(requestBody, "newPassword"))

resetPasswordParams(requestBody) ==
  Obj(<< <<"username", GetProp(requestBody, "username")>>,
         <<"code", GetProp(requestBody, "code")>>,
         <<"newPassword", GetProp(requestBody, "newPassword")>> >>)

\* The two branches after the gateway is constructed; the initiate branch
\* returns before the confirm branch is looked at
resetDispatch(ev, e, requestBody) ==
  IF GetProp(requestBody, "operation") = Str("initiate")
    THEN Dispatched("initiatePasswordReset", GetProp(requestBody, "username"),
                    initiatePasswordResetCommand(CognitoConfig(e), GetProp(requestBody, "username")))
  ELSE IF GetProp(requestBody, "operation") = Str("confirm")
    THEN (IF resetConfirmMissingFields(requestBody)
            THEN [Returned(
                    formatErrorResponse(
                      NewError("Missing required fields: code and newPassword are required for confirm operation"),
                      400),
                    <<LogLine("error", "Reset password error - Missing required fields for confirm:",
                              ContextFields(ev) \o
                              << <<"username", GetProp(requestBody, "username")>>,
                                 <<"hasCode", Bool(Truthy(GetProp(requestBody, "code")))>>,
                                 <<"hasNewPassword", Bool(Truthy(GetProp(requestBody, "newPassword")))>> >>)>>)
                  EXCEPT !.constructed = TRUE]
          ELSE IF ~validatePassword(GetProp(requestBody, "newPassword")).valid
            THEN [Returned(
                    formatErrorResponse(
                      NewError("Password does not meet requirements: "
                               \o Join(validatePassword(GetProp(requestBody, "newPassword")).errors, ", ")),
                      400),
                    <<LogLine("error", "Reset password error - Password validation failed:",
                              ContextFields(ev) \o
                              << <<"username", GetProp(requestBody, "username")>>,
                                 <<"errors", Arr(validatePassword(GetProp(requestBody, "newPassword")).errors)>> >>)>>)
                  EXCEPT !.constructed = TRUE]
          ELSE Dispatched("resetPassword", resetPasswordParams(requestBody),
                          resetPasswordCommand(CognitoConfig(e), resetPasswordParams(requestBody))))
  ELSE [Returned(formatErrorResponse(NewError("Invalid operation"), 400), <<>>)
        EXCEPT !.constructed = TRUE]

resetStart(ev, e) ==
  LET requestBody == JSONParse(ev.body).value IN
  IF JSONParse(ev.body).threw THEN InvalidJsonReturn(ev, "Reset password error - Invalid JSON:")
  ELSE IF ~CanReadProps(requestBody)
    THEN Returned(resetCatch(ev, NullPropertyError("operation")).response,
                  resetCatch(ev, NullPropertyError("operation")).logs)
  ELSE IF resetInvalidOperation(GetProp(requestBody, "operation"))
    THEN Returned(
      formatErrorResponse(NewError("Invalid operation: must be \"initiate\" or \"confirm\""), 400),
      <<LogLine("error", "Reset password error - Invalid operation:",
                ContextFields(ev) \o << <<"operation", GetProp(requestBody, "operation")>> >>)>>)
  ELSE IF ~Truthy(GetProp(requestBody, "username"))
    THEN Returned(
      formatErrorResponse(NewError("Missing required field: username is required"), 400),
      <<LogLine("error", "Reset password error - Missing username:",
                ContextFields(ev) \o << <<"operation", GetProp(requestBody, "operation")>> >>)>>)
  ELSE IF ConfigMissing(e)
    THEN ConfigErrorReturn(ev, e, "Reset password error - Missing environment variables:")
  ELSE resetDispatch(ev, e, requestBody)

resetResume(ev, rep) ==
  LET requestBody == JSONParse(ev.body).value IN
  IF ~rep.ok THEN resetCatch(ev, rep.error)
  ELSE IF GetProp(requestBody, "operation") = Str("initiate")
    THEN [response |-> formatSuccessResponse(
                         Obj(<< <<"message", Str("Password reset code sent successfully")>> >>), 200),
          logs |-> <<LogLine("log", "Password reset initiated:",
                      ContextFields(ev) \o << <<"username", GetProp(requestBody, "username")>> >>)>>]
    ELSE [response |-> formatSuccessResponse(
                         Obj(<< <<"message", Str("Password reset successfully")>> >>), 200),
          logs |-> <<LogLine("log", "Password reset confirmed:",
                      ContextFields(ev) \o << <<"username", GetProp(requestBody, "username")>> >>)>>]


-----------------------------------------------------------------------------
(* Inputs: request bodies, environments and provider replies               *)

\* Longest session token the provider issues in a challenge
MaxSessionLen == 3

\* All strings of length 1..n over the characters of alphabet
RECURSIVE StringsOver(_, _)
StringsOver(alphabet, n) ==
  IF n = 0 THEN {""}
  ELSE StringsOver(alphabet, n - 1)
       \cup {str \o CharAt(alphabet, i) :
               str \in StringsOver(alphabet, n - 1), i \in 1..Len(alphabet)}

\* Session tokens of the provider: they may contain ':'
ProviderSessions == StringsOver("s:", MaxSessionLen) \ {""}

UsernameValues == {Undef, Str(""), Str("  "), Str("alice"), Num(5)}

\* too short; long enough but lower case only; conforming
NewPasswordValues ==
  {Undef, Str(""), Str("Short1!"), Str("weakpassphrase"), Str("Str0ng!Passw0rd")}

LoginPasswordValues == {Undef, Str(""), Str("  "), Str("Str0ng!Passw0rd")}

PreviousPasswordValues == {Undef, Str("  "), Str("0ld!Passw0rd#")}

EmailValues == {Undef, Str("a@b.c"), Str("not-an-email"), Str("a@b"), Str("a b@c.d"), Str("a@@b.c")}

CodeValues == {Undef, Str("  "), Str(" 123456 "), Str("123456"), Num(123456)}

RequestSessionValues == {Undef, Str("  "), Str("req-sess-1")}

OperationValues ==
  {Undef, Str("initiate"), Str("confirm"), Str("Confirm"), Str("delete"), Num(5)}

AttributeValues == {Undef, Obj(<< <<"name", Str("Alice")>> >>)}

JsonBody(value) == [syntax |-> "json", value |-> value]

\* Bodies every handler can receive: the empty string, text that is not
\* JSON, and the JSON values that are not objects
OtherBodies ==
  {[syntax |-> "empty", value |-> Undef], [syntax |-> "malformed", value |-> Undef]}
  \cup {JsonBody(v) : v \in {Null, Num(5), Str("text"), Arr(<<>>), Bool(TRUE)}}

SignupBodies ==
  OtherBodies \cup
  {JsonBody(Obj(<< <<"username", u>>, <<"password", p>>, <<"email", m>>, <<"attributes", a>> >>)) :
     u \in UsernameValues, p \in NewPasswordValues, m \in EmailValues, a \in AttributeValues}

VerifyBodies ==
  OtherBodies \cup
  {JsonBody(Obj(<< <<"username", u>>, <<"code", c>> >>)) : u \in UsernameValues, c \in CodeValues}

LoginBodies ==
  OtherBodies \cup
  {JsonBody(Obj(<< <<"username", u>>, <<"password", p>> >>)) :
     u \in UsernameValues, p \in LoginPasswordValues}

MfaBodies ==
  OtherBodies \cup
  {JsonBody(Obj(<< <<"session", x>>, <<"mfaCode", c>>, <<"username", u>> >>)) :
     x \in RequestSessionValues, c \in CodeValues, u \in UsernameValues}

SetPasswordBodies ==
  OtherBodies \cup
  {JsonBody(Obj(<< <<"username", u>>, <<"previousPassword", o>>,
                   <<"proposedPassword", p>>, <<"session", x>> >>)) :
     u \in UsernameValues, o \in PreviousPasswordValues,
     p \in NewPasswordValues, x \in RequestSessionValues}

ResetBodies ==
  OtherBodies \cup
  {JsonBody(Obj(<< <<"operation", op>>, <<"username", u>>, <<"code", c>>, <<"newPassword", p>> >>)) :
     op \in OperationValues, u \in UsernameValues, c \in CodeValues, p \in NewPasswordValues}

Event(body) ==
  [body |-> body,
   requestContext |-> [requestId |-> "req-1", identity |-> [sourceIp |-> "203.0.113.7"]]]

NoEvent ==
  [body |-> [syntax |-> "empty", value |-> Undef],
   requestContext |-> [requestId |-> "", identity |-> [sourceIp |-> ""]]]

Envs ==
  [USER_POOL_ID : {Undef, Str("pool-1")},
   CLIENT_ID : {Undef, Str("client-1")},
   REGION : {Undef, Str("eu-west-1")},
   AWS_REGION : {Undef}]

\* Error names the provider can fail with: those some handler maps, one no
\* handler maps, and an error without a name
ErrorNames ==
  {"UsernameExistsException", "InvalidPasswordException", "InvalidParameterException",
   "TooManyRequestsException", "LimitExceededException", "CodeMismatchException",
   "ExpiredCodeException", "UserNotFoundException", "NotAuthorizedException",
   "TooManyFailedAttemptsException", "UserNotConfirmedException",
   "PasswordResetRequiredException", "UserLambdaValidationException",
   "InternalErrorException", ""}

ErrorMessages ==
  {"User does not exist.", "Invalid Password, access Token or SESSION", "MFA_REQUIRED:s1"}

NoReply == [received |-> FALSE, ok |-> FALSE, output |-> Undef, error |-> NewError("")]

OutputReply(output) == [received |-> TRUE, ok |-> TRUE, output |-> output, error |-> NewError("")]

ErrorReply(name, message) ==
  [received |-> TRUE, ok |-> FALSE, output |-> Undef, error |-> [name |-> name, message |-> message]]

ErrorReplies == {ErrorReply(n, m) : n \in ErrorNames, m \in ErrorMessages}

AuthenticationResult ==
  Obj(<< <<"AccessToken", Str("acc.jwt.1")>>, <<"IdToken", Str("id.jwt.1")>>,
         <<"RefreshToken", Str("ref.jwt.1")>>, <<"ExpiresIn", Num(3600)>>,
         <<"TokenType", Str("Bearer")>> >>)

SignUpReplies ==
  ErrorReplies \cup
  {OutputReply(Obj(<< <<"UserSub", Str("sub-1")>>,
                      <<"CodeDeliveryDetails",
                        Obj(<< <<"Destination", Str("a***@b.c")>>,
                               <<"DeliveryMedium", Str("EMAIL")>>,
                               <<"AttributeName", Str("email")>> >>)>> >>)),
   OutputReply(Obj(<< <<"UserSub", Str("sub-1")>> >>))}

VoidReplies == ErrorReplies \cup {OutputReply(Obj(<<>>))}

\* InitiateAuth answers with tokens, with a challenge carrying a session, or
\* with neither
LoginReplies ==
  ErrorReplies
  \cup {OutputReply(Obj(<< <<"AuthenticationResult", AuthenticationResult>> >>)),
        OutputReply(Obj(<<>>))}
  \cup {OutputReply(Obj(<< <<"ChallengeName", Str("SMS_MFA")>>, <<"Session", Str(x)>> >>)) :
          x \in ProviderSessions}

\* RespondToAuthChallenge answers with tokens or with a further challenge
MfaReplies ==
  ErrorReplies
  \cup {OutputReply(Obj(<< <<"AuthenticationResult", AuthenticationResult>> >>)),
        OutputReply(Obj(<< <<"ChallengeName", Str("SOFTWARE_TOKEN_MFA")>>,
                           <<"Session", Str("s")>> >>))}

-----------------------------------------------------------------------------
(* The configuration tool before any call                                  *)

\* configState as the module creates it
InitialConfigState ==
  Obj(<< <<"useCase", Null>>, <<"appType", Null>>, <<"authMethod", Null>>,
         <<"mfaConfig", Null>>, <<"passwordPolicy", Null>>, <<"advancedSecurity", Null>>,
         <<"emailConfig", Null>>, <<"appClient", Null>>, <<"domain", Null>>,
         <<"customAttributes", Arr(<<>>)>>, <<"lambdaTriggers", Arr(<<>>)>>,
         <<"multiTenant", Null>> >>)

\* No request is being served
NoToolCall == [name |-> "none", section |-> Undef, data |-> Undef, stackName |-> Undef]

NoToolResult == [isError |-> FALSE, payload |-> Undef]

ToolAtRest ==
  /\ configState = InitialConfigState
  /\ toolCall = NoToolCall
  /\ toolResult = NoToolResult
  /\ savedSinceReset = {}

-----------------------------------------------------------------------------
(* The state machine of one invocation after another                       *)

\* No helper function is applied on its own
NoInput == Undef

NotApplied == [fn |-> "none", statusCode |-> Undef, result |-> Undef]

Init ==
  /\ pc = "idle"
  /\ handlerName = "none"
  /\ event = NoEvent
  /\ env \in Envs
  /\ constructed = FALSE
  /\ calls = <<>>
  /\ logs = <<>>
  /\ response = NoResponse
  /\ reply = NoReply
  /\ input = NoInput
  /\ applied = NotApplied
  /\ ToolAtRest

\* The handler named name is invoked with ev and runs up to its return or
\* up to the awaited provider call
StartWith(name, ev, out) ==
  /\ pc = "idle"
  /\ pc' = IF out.done THEN "done" ELSE "awaiting"
  /\ handlerName' = name
  /\ event' = ev
  /\ constructed' = out.constructed
  /\ calls' = out.calls
  /\ logs' = out.logs
  /\ response' = out.response
  /\ UNCHANGED <<env, reply, input, applied, toolVars>>

\* ResumeWith that goes on waiting after the provider's answer
ResumeWith_StillWaiting(name, rep, out) ==
  /\ pc = "awaiting"
  /\ handlerName = name
  /\ pc' = "awaiting"
  /\ reply' = rep
  /\ logs' = logs \o out.logs
  /\ response' = out.response
  /\ UNCHANGED <<handlerName, event, env, constructed, calls, input, applied, toolVars>>

\* The provider answers the awaited call with rep and the handler returns
ResumeWith(name, rep, out) ==
  /\ pc = "awaiting"
  /\ handlerName = name
  /\ pc' = "done"
  /\ reply' = rep
  /\ logs' = logs \o out.logs
  /\ response' = out.response
  /\ UNCHANGED <<handlerName, event, env, constructed, calls, input, applied, toolVars>>

Signup ==
  \E b \in SignupBodies :
    LET out == signupStart(Event(b), env) IN StartWith("signup", Event(b), out)

SignupReply == \E rep \in SignUpReplies : ResumeWith("signup", rep, signupResume(event, rep))

Verify == \E b \in VerifyBodies : StartWith("verify", Event(b), verifyStart(Event(b), env))

VerifyReply == \E rep \in VoidReplies : ResumeWith("verify", rep, verifyResume(event, rep))

Login == \E b \in LoginBodies : StartWith("login", Event(b), loginStart(Event(b), env))

LoginReply == \E rep \in LoginReplies : ResumeWith("login", rep, loginResume(event, rep))

Mfa == \E b \in MfaBodies : StartWith("mfa", Event(b), mfaStart(Event(b), env))

MfaReply == \E rep \in MfaReplies : ResumeWith("mfa", rep, mfaResume(event, rep))

SetNewPassword ==
  \E b \in SetPasswordBodies :
    StartWith("set-new-password", Event(b), setPasswordStart(Event(b), env))

SetNewPasswordReply ==
  \E rep \in VoidReplies : ResumeWith("set-new-password", rep, setPasswordResume(event, rep))

ResetPassword ==
  \E b \in ResetBodies : StartWith("reset-password", Event(b), resetStart(Event(b), env))

ResetPasswordReply ==
  \E rep \in VoidReplies : ResumeWith("reset-password", rep, resetResume(event, rep))

\* The invocation is over; nothing of it is kept
Finish ==
  /\ pc = "done"
  /\ pc' = "idle"
  /\ handlerName' = "none"
  /\ event' = NoEvent
  /\ constructed' = FALSE
  /\ calls' = <<>>
  /\ logs' = <<>>
  /\ response' = NoResponse
  /\ reply' = NoReply
  /\ UNCHANGED <<env, input, applied, toolVars>>

Next ==
  \/ Signup \/ SignupReply
  \/ Verify \/ VerifyReply
  \/ Login \/ LoginReply
  \/ Mfa \/ MfaReply
  \/ SetNewPassword \/ SetNewPasswordReply
  \/ ResetPassword \/ ResetPasswordReply
  \/ Finish

Spec == Init /\ [][Next]_vars


-----------------------------------------------------------------------------
(* Vocabulary of the properties                                            *)

Handlers == {"signup", "verify", "login", "mfa", "set-new-password", "reset-password"}

Done == pc = "done"

BodyParses == event.body.syntax = "json"

\* The request field name as the handler sees it (undefined when the body
\* is not an object)
Field(name) ==
  IF event.body.value.t = "object" THEN GetProp(event.body.value, name) ELSE Undef

\* A field that is absent, null or the empty string
Blank(name) == Field(name) \in {Undef, Null, Str("")}

RequiredFields ==
  CASE handlerName = "signup" -> {"username", "password", "email"}
    [] handlerName = "verify" -> {"username", "code"}
    [] handlerName = "login" -> {"username", "password"}
    [] handlerName = "mfa" -> {"session", "mfaCode", "username"}
    [] handlerName = "set-new-password" ->
         {"username", "previousPassword", "proposedPassword", "session"}
    [] handlerName = "reset-password" ->
         IF Field("operation") = Str("confirm")
           THEN {"operation", "username", "code", "newPassword"}
           ELSE {"operation", "username"}
    [] OTHER -> {}

PoolOrClientUnset == env.USER_POOL_ID = Undef \/ env.CLIENT_ID = Undef

GatewayFailed == reply.received /\ ~reply.ok

ErrorBody(message) ==
  JSONStringify(Obj(<< <<"error", Obj(<< <<"code", Str("Error")>>,
                                         <<"message", Str(message)>> >>)>> >>))

\* C1: for every handler and every body that parses as JSON, if a field the
\* operation requires is absent or empty, the response has status 400 and
\* no gateway operation is invoked.
C1_MissingFieldRejected ==
  (Done /\ BodyParses /\ \E f \in RequiredFields : Blank(f))
    => (response.statusCode = 400 /\ calls = <<>>)

\* C2: for each of the six handlers, an event body that is empty or is not
\* JSON is answered with status 400 and a message containing 'Invalid
\* request body', and neither the gateway is constructed nor an operation
\* of it invoked.
C2_InvalidBodyRejected ==
  (Done /\ handlerName \in Handlers /\ event.body.syntax \in {"empty", "malformed"})
    => /\ response.statusCode = 400
       /\ response.body = ErrorBody("Invalid request body: must be valid JSON")
       /\ Contains(response.body, "Invalid request body")
       /\ ~constructed
       /\ calls = <<>>
       /\ ~reply.received

C2_Witness ==
  /\ Done
  /\ handlerName = "set-new-password"
  /\ event.body.syntax = "empty"
  /\ response.statusCode = 400

\* C3 as stated, for the bodies that are JSON objects: with the pool or the
\* client identifier unset, every request is answered 500 'Server
\* configuration error', whatever its fields (required fields missing, an
\* invalid email or a policy-violating password included), and the gateway
\* is never constructed or invoked.
C3_ConfigCheckedFirst ==
  (Done /\ PoolOrClientUnset /\ BodyParses /\ event.body.value.t = "object")
    => /\ response.statusCode = 500
       /\ Contains(response.body, "Server configuration error")
       /\ ~constructed
       /\ calls = <<>>

\* The checks of the body that each handler makes before it reads the
\* configuration
PassesChecksBeforeConfig ==
  /\ event.body.syntax = "json"
  /\ event.body.value.t \notin {"null", "undefined"}
  /\ CASE handlerName = "signup" ->
            /\ \A f \in {"username", "password", "email"} : Truthy(Field(f))
            /\ validateEmail(Field("email"))
            /\ validatePassword(Field("password")).valid
       [] handlerName = "verify" ->
            /\ \A f \in {"username", "code"} : Truthy(Field(f))
            /\ IsString(Field("code"))
            /\ Trim(Field("code").s) # ""
       [] handlerName = "login" -> \A f \in {"username", "password"} : Truthy(Field(f))
       [] handlerName = "mfa" -> \A f \in {"session", "mfaCode", "username"} : Truthy(Field(f))
       [] handlerName = "set-new-password" ->
            /\ \A f \in {"username", "previousPassword", "proposedPassword", "session"} :
                 Truthy(Field(f))
            /\ validatePassword(Field("proposedPassword")).valid
       [] handlerName = "reset-password" ->
            /\ Field("operation") \in {Str("initiate"), Str("confirm")}
            /\ Truthy(Field("username"))
       [] OTHER -> FALSE

\* C3 amended: with the pool or the client identifier unset, no handler
\* constructs or invokes the gateway or waits for it; a request that passes
\* the checks its handler makes before reading the configuration is
\* answered 500 'Server configuration error', and a request that fails one
\* of them is answered by that check (400, or the generic 500 of a JSON
\* null body) and not by the configuration error.
C3_ConfigCheckedAfterValidation ==
  PoolOrClientUnset =>
    /\ ~constructed
    /\ calls = <<>>
    /\ pc # "awaiting"
    /\ ~reply.received
    /\ (Done /\ PassesChecksBeforeConfig) =>
         /\ response.statusCode = 500
         /\ response.body = ErrorBody("Server configuration error: missing Cognito configuration")
    /\ (Done /\ ~PassesChecksBeforeConfig) =>
         /\ response.statusCode \in {400, 500}
         /\ ~Contains(response.body, "Server configuration error")

C3_Witness ==
  /\ Done
  /\ handlerName = "reset-password"
  /\ env.CLIENT_ID = Undef
  /\ Field("operation") = Str("confirm")
  /\ Field("code") = Undef
  /\ response.statusCode = 500
  /\ Contains(response.body, "Server configuration error")

ExpectedOperation ==
  CASE handlerName = "signup" -> "signUp"
    [] handlerName = "verify" -> "verifyCode"
    [] handlerName = "login" -> "login"
    [] handlerName = "mfa" -> "confirmMFA"
    [] handlerName = "set-new-password" -> "setNewPassword"
    [] handlerName = "reset-password" ->
         (IF Field("operation") = Str("initiate") THEN "initiatePasswordReset"
          ELSE IF Field("operation") = Str("confirm") THEN "resetPassword"
          ELSE "none")
    [] OTHER -> "none"

\* C4: in every invocation at most one gateway operation is invoked, it is
\* the one matching the handler's purpose (for reset-password the one its
\* operation field names, never both), and this holds after the call has
\* succeeded or failed as well: a failed call is not retried.
C4_SingleGatewayOperation ==
  /\ Len(calls) <= 1
  /\ \A i \in 1..Len(calls) : calls[i].op = ExpectedOperation
  /\ (pc = "awaiting" \/ reply.received) => Len(calls) = 1

C4_Witness ==
  /\ Done
  /\ handlerName = "reset-password"
  /\ GatewayFailed
  /\ Len(calls) = 1
  /\ calls[1].op = "resetPassword"

\* The required values a gateway call is given (signUp's attribute map is
\* optional)
PassedValues(call) ==
  IF call.op = "initiatePasswordReset" THEN {call.params}
  ELSE {call.params.props[i][2] :
          i \in {j \in 1..Len(call.params.props) : call.params.props[j][1] # "attributes"}}

\* C5: whenever a handler invokes a gateway operation, every required field
\* it passes is a string that is non-empty after trimming.
C5_DispatchedFieldsNonEmptyTrimmed ==
  \A i \in 1..Len(calls) : \A v \in PassedValues(calls[i]) :
    IsString(v) /\ Trim(v.s) # ""

ChallengeReply ==
  /\ reply.received
  /\ reply.ok
  /\ Truthy(GetProp(reply.output, "ChallengeName"))
  /\ IsString(GetProp(reply.output, "Session"))

\* C6: when login's gateway call signals a challenge with session token S,
\* the response has status 200 and a body with challengeName 'MFA_REQUIRED'
\* and session exactly S, for every S (also one that contains ':').
C6_ChallengeSessionReturned ==
  (Done /\ handlerName = "login" /\ ChallengeReply)
    => /\ response.statusCode = 200
       /\ response.body =
            JSONStringify(Obj(<< <<"challengeName", Str("MFA_REQUIRED")>>,
                                 <<"session", GetProp(reply.output, "Session")>>,
                                 <<"message", Str("MFA verification required. Please provide MFA code.")>> >>))

\* C7: for every handler and every gateway failure (any error name, any
\* message text), the response body, compared case-insensitively, contains
\* none of 'password', 'token' and 'session'.
C7_NoSensitiveWordAfterFailure ==
  (Done /\ GatewayFailed)
    => /\ ~ContainsCI(response.body, "password")
       /\ ~ContainsCI(response.body, "token")
       /\ ~ContainsCI(response.body, "session")

\* C8: in login, a gateway failure of kind 'user not found' and one of kind
\* 'not authorized' produce the same response: status 401, the same
\* headers and the same body.
C8_LoginHidesAccountExistence ==
  (Done /\ handlerName = "login" /\ GatewayFailed
   /\ reply.error.name \in {"UserNotFoundException", "NotAuthorizedException"})
    => /\ response.statusCode = 401
       /\ response.headers = <<<<"Content-Type", "application/json">>,
                               <<"Access-Control-Allow-Origin", "*">>>>
       /\ response.body = ErrorBody("Incorrect username or [REDACTED]")

\* The strings of a logged value
LoggedStrings(v) ==
  CASE v.t = "string" -> {v.s}
    [] v.t = "array" -> {v.items[i] : i \in 1..Len(v.items)}
    [] OTHER -> {}

StringsOf(values) == {v.s : v \in {w \in values : IsString(w) /\ Trim(w.s) # ""}}

\* The secrets of an invocation: the passwords, codes and session of the
\* request, and the session and tokens of the provider's reply
Secrets ==
  StringsOf({Field(f) : f \in {"password", "previousPassword", "proposedPassword",
                                "newPassword", "code", "mfaCode", "session"}})
  \cup (IF reply.received /\ reply.ok
          THEN StringsOf({GetProp(reply.output, "Session")}
                         \cup {OptProp(GetProp(reply.output, "AuthenticationResult"), f) :
                                 f \in {"AccessToken", "IdToken", "RefreshToken"}})
          ELSE {})

\* C9: no log line of a handler contains a password, a token, a
\* verification or MFA code, or a session identifier of the request or of
\* the gateway's reply.
C9_NoSecretInLogs ==
  \A i \in 1..Len(logs) : \A j \in 1..Len(logs[i].fields) :
    \A str \in LoggedStrings(logs[i].fields[j][2]) : \A secret \in Secrets :
      ~Contains(str, secret)


PolicyHandler ==
  \/ handlerName \in {"signup", "set-new-password"}
  \/ (handlerName = "reset-password" /\ Field("operation") = Str("confirm"))

NewPasswordField ==
  CASE handlerName = "signup" -> "password"
    [] handlerName = "set-new-password" -> "proposedPassword"
    [] OTHER -> "newPassword"

\* The rules of the password policy that the string str violates, in the
\* policy's order
ViolatedRules(str) ==
  (IF Len(str) < 12 THEN <<"Password must be at least 12 characters">> ELSE <<>>)
  \o (IF \A i \in 1..Len(str) : CharAt(str, i) \notin UpperSet
        THEN <<"Password must contain uppercase letters">> ELSE <<>>)
  \o (IF \A i \in 1..Len(str) : CharAt(str, i) \notin LowerSet
        THEN <<"Password must contain lowercase letters">> ELSE <<>>)
  \o (IF \A i \in 1..Len(str) : CharAt(str, i) \notin DigitSet
        THEN <<"Password must contain numbers">> ELSE <<>>)
  \o (IF \A i \in 1..Len(str) : CharAt(str, i) \in (UpperSet \cup LowerSet \cup DigitSet)
        THEN <<"Password must contain symbols">> ELSE <<>>)

SuppliedPasswordViolatesPolicy ==
  /\ Done
  /\ PolicyHandler
  /\ IsString(Field(NewPasswordField))
  /\ ViolatedRules(Field(NewPasswordField).s) # <<>>

SuppliedEmailFailsShape ==
  /\ Done
  /\ handlerName = "signup"
  /\ IsString(Field("email"))
  /\ ~validateEmail(Field("email"))

\* C10 as stated: for signup, set-new-password and reset-password confirm,
\* a new password that violates the policy is answered with status 400 and
\* a message listing every violated rule, joined, and no gateway operation
\* is invoked; a signup email that fails the shape check is answered 400
\* with no gateway call.
C10_PolicyViolationListed ==
  /\ SuppliedPasswordViolatesPolicy =>
       /\ response.statusCode = 400
       /\ Contains(response.body, Join(ViolatedRules(Field(NewPasswordField).s), ", "))
       /\ calls = <<>>
  /\ SuppliedEmailFailsShape => (response.statusCode = 400 /\ calls = <<>>)

\* Each 'Password' of a rule's message as the error formatter leaves it
RedactedRules(rules) ==
  [i \in 1..Len(rules) |-> "[REDACTED]" \o SubSeq(rules[i], Len("Password") + 1, Len(rules[i]))]

PolicyMessagePrefix ==
  IF handlerName = "signup" THEN "[REDACTED] validation failed: "
  ELSE "[REDACTED] does not meet requirements: "

\* C10 amended: a new password that violates the policy never reaches the
\* gateway.  When every required field of the request is present (and, in
\* signup, the email passes the shape check; in reset-password, the pool
\* and client identifiers are set, since that handler reads the
\* configuration before it looks at the new password), the response has
\* status 400 and its message is the handler's prefix followed by the
\* messages of all violated rules joined by ', ', with every 'Password'
\* replaced by '[REDACTED]'.  Otherwise the earlier check answers: 400 for
\* a missing field or a malformed email, 500 'Server configuration error'
\* in reset-password.  A signup email that fails the shape check is
\* answered 400 without a gateway call, with 'Invalid email format' when
\* the required fields are present.
C10_PolicyViolationRejected ==
  /\ SuppliedPasswordViolatesPolicy =>
       /\ calls = <<>>
       /\ ~constructed \/ handlerName = "reset-password"
       /\ ~reply.received
       /\ IF handlerName = "reset-password" /\ PoolOrClientUnset
             /\ Truthy(Field("username"))
            THEN /\ response.statusCode = 500
                 /\ Contains(response.body, "Server configuration error")
            ELSE response.statusCode = 400
       /\ ( /\ \A f \in RequiredFields : Truthy(Field(f))
            /\ handlerName = "signup" => validateEmail(Field("email"))
            /\ handlerName = "reset-password" => ~PoolOrClientUnset )
          => response.body =
               ErrorBody(PolicyMessagePrefix
                         \o Join(RedactedRules(ViolatedRules(Field(NewPasswordField).s)), ", "))
  /\ SuppliedEmailFailsShape =>
       /\ response.statusCode = 400
       /\ calls = <<>>
       /\ ~constructed
       /\ (\A f \in RequiredFields : Truthy(Field(f)))
            => response.body = ErrorBody("Invalid email format")

C10_Witness ==
  /\ Done
  /\ handlerName = "reset-password"
  /\ Field("operation") = Str("confirm")
  /\ Field("newPassword") = Str("weakpassphrase")
  /\ Truthy(Field("username"))
  /\ Truthy(Field("code"))
  /\ response.statusCode = 400
  /\ Contains(response.body, "[REDACTED] must contain uppercase letters, [REDACTED] must contain numbers")

-----------------------------------------------------------------------------
(* Reading JSON text back: the text JSON.stringify writes (no insignificant *)
(* white space, non-negative integers, the escapes of EscapeJson) is        *)
(* accepted, any other text is refused.                                     *)

MaxOf(S) == CHOOSE i \in S : \A j \in S : i >= j

\* The number of backslashes that end right before position j
RECURSIVE BackslashRun(_, _)
BackslashRun(s, j) ==
  IF j > 1 /\ CharAt(s, j - 1) = "\\" THEN 1 + BackslashRun(s, j - 1) ELSE 0

\* The positions of the quotes of s that no backslash escapes
QuotePositions(s) ==
  {j \in 1..Len(s) : CharAt(s, j) = "\"" /\ BackslashRun(s, j) % 2 = 0}

\* The text of a JSON string literal without its escapes
RECURSIVE UnescapeJson(_)
UnescapeJson(s) ==
  LET at == {i \in 1..Len(s) : CharAt(s, i) = "\\"}
      p == MinOf(at)
      c == CharAt(s, p + 1)
      rest == UnescapeJson(SubSeq(s, p + 2, Len(s)))
  IN IF at = {} THEN [ok |-> \A i \in 1..Len(s) : CharAt(s, i) \notin {"\n", "\t"}, s |-> s]
     ELSE IF p = Len(s) \/ c \notin {"\"", "\\", "n", "t"} THEN [ok |-> FALSE, s |-> ""]
     ELSE [ok |-> rest.ok,
           s |-> SubSeq(s, 1, p - 1)
                 \o (CASE c = "\"" -> "\"" [] c = "\\" -> "\\" [] c = "n" -> "\n" [] OTHER -> "\t")
                 \o rest.s]

\* The value of a run of decimal digits
RECURSIVE DigitsValue(_)
DigitsValue(s) ==
  IF Len(s) = 0 THEN 0
  ELSE 10 * DigitsValue(SubSeq(s, 1, Len(s) - 1))
       + ((CHOOSE k \in 1..10 : CharAt(DigitChars, k) = CharAt(s, Len(s))) - 1)

ParseFailed == [ok |-> FALSE, value |-> Undef, next |-> 0]

Parsed(value, next) == [ok |-> TRUE, value |-> value, next |-> next]

\* The string literal that opens at position i
ParseStringAt(s, i, quotes) ==
  LET later == {j \in quotes : j > i}
      close == MinOf(later)
      text == UnescapeJson(SubSeq(s, i + 1, close - 1))
  IN IF later = {} \/ ~text.ok THEN ParseFailed ELSE Parsed(Str(text.s), close + 1)

\* The number that starts at position i
ParseNumberAt(s, i) ==
  LET stop == {j \in i..Len(s) : ~IsDigit(CharAt(s, j))}
      last == IF stop = {} THEN Len(s) ELSE MinOf(stop) - 1
  IN IF last > i /\ CharAt(s, i) = "0" THEN ParseFailed
     ELSE Parsed(Num(DigitsValue(SubSeq(s, i, last))), last + 1)

RECURSIVE ParseValueAt(_, _, _)
RECURSIVE ParseMembersAt(_, _, _, _)
RECURSIVE ParseItemsAt(_, _, _, _)

\* The members of an object from position i on, after those in acc
ParseMembersAt(s, i, quotes, acc) ==
  LET key == ParseStringAt(s, i, quotes)
      val == ParseValueAt(s, key.next + 1, quotes)
      after == CharAt(s, val.next)
      sofar == Append(acc, <<key.value.s, val.value>>)
  IN IF i > Len(s) \/ CharAt(s, i) # "\"" \/ ~key.ok THEN ParseFailed
     ELSE IF key.next > Len(s) \/ CharAt(s, key.next) # ":" THEN ParseFailed
     ELSE IF ~val.ok \/ val.next > Len(s) THEN ParseFailed
     ELSE IF after = "}" THEN Parsed(Obj(sofar), val.next + 1)
     ELSE IF after = "," THEN ParseMembersAt(s, val.next + 1, quotes, sofar)
     ELSE ParseFailed

\* The items of an array of strings from position i on, after those in acc
ParseItemsAt(s, i, quotes, acc) ==
  LET item == ParseStringAt(s, i, quotes)
      after == CharAt(s, item.next)
      sofar == Append(acc, item.value.s)
  IN IF i > Len(s) \/ CharAt(s, i) # "\"" \/ ~item.ok \/ item.next > Len(s) THEN ParseFailed
     ELSE IF after = "]" THEN Parsed(Arr(sofar), item.next + 1)
     ELSE IF after = "," THEN ParseItemsAt(s, item.next + 1, quotes, sofar)
     ELSE ParseFailed

\* The JSON value that starts at position i of s
ParseValueAt(s, i, quotes) ==
  LET c == CharAt(s, i)
      word(w) == i + Len(w) - 1 <= Len(s) /\ SubSeq(s, i, i + Len(w) - 1) = w
  IN IF i > Len(s) THEN ParseFailed
     ELSE IF c = "\"" THEN ParseStringAt(s, i, quotes)
     ELSE IF c = "{" THEN
       (IF word("{}") THEN Parsed(Obj(<<>>), i + 2) ELSE ParseMembersAt(s, i + 1, quotes, <<>>))
     ELSE IF c = "[" THEN
       (IF word("[]") THEN Parsed(Arr(<<>>), i + 2) ELSE ParseItemsAt(s, i + 1, quotes, <<>>))
     ELSE IF IsDigit(c) THEN ParseNumberAt(s, i)
     ELSE IF word("true") THEN Parsed(Bool(TRUE), i + 4)
     ELSE IF word("false") THEN Parsed(Bool(FALSE), i + 5)
     ELSE IF word("null") THEN Parsed(Null, i + 4)
     ELSE ParseFailed

\* JSON.parse of the text s: whether it is JSON, and the value it denotes
ParseJsonText(s) ==
  LET r == ParseValueAt(s, 1, QuotePositions(s))
  IN IF r.ok /\ r.next = Len(s) + 1 THEN [ok |-> TRUE, value |-> r.value]
     ELSE [ok |-> FALSE, value |-> Undef]

-----------------------------------------------------------------------------
(* The envelope                                                            *)

EnvelopeStatuses == {200, 400, 401, 403, 404, 409, 429, 500}

EnvelopeHeaders ==
  << <<"Content-Type", "application/json">>, <<"Access-Control-Allow-Origin", "*">> >>

\* A parsed body of the shape {error: {code, message}} with two strings
IsErrorShape(v) ==
  /\ v.t = "object"
  /\ Len(v.props) = 1
  /\ v.props[1][1] = "error"
  /\ v.props[1][2].t = "object"
  /\ Len(v.props[1][2].props) = 2
  /\ v.props[1][2].props[1][1] = "code"
  /\ v.props[1][2].props[1][2].t = "string"
  /\ v.props[1][2].props[2][1] = "message"
  /\ v.props[1][2].props[2][2].t = "string"

-----------------------------------------------------------------------------
(* The mapping of provider failures                                        *)

\* The provider's failure of the awaited call has one of the names
FailedWith(names) == Done /\ GatewayFailed /\ reply.error.name \in names

RateLimitNames ==
  {"TooManyRequestsException", "LimitExceededException", "TooManyFailedAttemptsException"}

\* C12: in every handler, a provider failure that is a rate limit (too many
\* requests, limit exceeded, too many failed attempts) is answered with
\* status 429.
C12_RateLimitAnswered429 ==
  FailedWith(RateLimitNames) => response.statusCode = 429

\* C13: a provider failure 'not authorized' is answered with status 403 by
\* reset-password and with status 401 by verify, login, mfa and
\* set-new-password.
C13_NotAuthorizedStatus ==
  FailedWith({"NotAuthorizedException"}) =>
    /\ handlerName = "reset-password" => response.statusCode = 403
    /\ handlerName \in {"verify", "login", "mfa", "set-new-password"} =>
         response.statusCode = 401

\* C14: a provider failure 'code mismatch' or 'expired code' is answered
\* with status 400 by verify and reset-password and with status 401 by mfa;
\* verify answers a code mismatch with the message 'Invalid verification
\* code'.
C14_CodeFailureStatus ==
  FailedWith({"CodeMismatchException", "ExpiredCodeException"}) =>
    /\ handlerName \in {"verify", "reset-password"} => response.statusCode = 400
    /\ handlerName = "mfa" => response.statusCode = 401
    /\ (handlerName = "verify" /\ reply.error.name = "CodeMismatchException") =>
         response.body = ErrorBody("Invalid verification code")

C14_Witness ==
  /\ FailedWith({"CodeMismatchException"})
  /\ handlerName = "verify"
  /\ response.statusCode = 400

\* The error names the catch block of the running handler tests for
MappedNames ==
  LET table == CASE handlerName = "signup" -> signupErrorTable
                 [] handlerName = "verify" -> verifyErrorTable
                 [] handlerName = "login" -> loginErrorTable
                 [] handlerName = "mfa" -> mfaErrorTable
                 [] handlerName = "set-new-password" -> setPasswordErrorTable
                 [] handlerName = "reset-password" -> resetErrorTable
                 [] OTHER -> <<>>
  IN {table[i][1] : i \in 1..Len(table)}

GenericMessage ==
  CASE handlerName = "signup" -> "An unexpected error occurred during signup"
    [] handlerName = "verify" -> "An unexpected error occurred during verification"
    [] handlerName = "login" -> "An unexpected error occurred during login"
    [] handlerName = "mfa" -> "An unexpected error occurred during MFA verification"
    [] handlerName = "set-new-password" -> "An unexpected error occurred during [REDACTED] change"
    [] handlerName = "reset-password" -> "An unexpected error occurred during [REDACTED] reset"
    [] OTHER -> ""

\* C15: in every handler, a provider failure whose name the handler does
\* not map (an error without a name included) is answered with status 500
\* and the handler's fixed generic message, whatever the provider's text.
C15_UnmappedFailureGeneric ==
  (Done /\ GatewayFailed /\ reply.error.name \notin MappedNames) =>
    /\ response.statusCode = 500
    /\ response.body = ErrorBody(GenericMessage)

\* The code field of an error body ("" when the body has no such field)
ErrorCodeOf(body) ==
  LET v == ParseJsonText(body).value
  IN IF ParseJsonText(body).ok /\ IsErrorShape(v) THEN v.props[1][2].props[1][2].s ELSE ""

\* C16: when the provider's call fails with a named error, the code field
\* of the error body is that name (signup failing with
\* UsernameExistsException answers 409 with code
\* 'UsernameExistsException'); it is 'InternalError' only when the error
\* has no name.
C16_ErrorCodeIsProviderName ==
  (Done /\ GatewayFailed) =>
    /\ ErrorCodeOf(response.body) =
         (IF reply.error.name # "" THEN reply.error.name ELSE "InternalError")
    /\ (handlerName = "signup" /\ reply.error.name = "UsernameExistsException") =>
         response.statusCode = 409

-----------------------------------------------------------------------------
(* The helper functions applied on their own                               *)

\* Deepest nesting of objects among the values given to
\* formatSuccessResponse
MaxJsonDepth == 2

RECURSIVE Repeat(_, _)
Repeat(c, n) == IF n = 0 THEN "" ELSE c \o Repeat(c, n - 1)

\* Passwords with and without a character of each class, shorter than the
\* minimum length, of that length and longer
PasswordStrings ==
  {u \o l \o d \o y \o Repeat(c, n) :
     u \in {"", "Q"}, l \in {"", "w"}, d \in {"", "7"}, y \in {"", "!", " "},
     c \in {"z", "Z", "0", "#"},
     n \in {0, MinPasswordLength - 5, MinPasswordLength - 4, MinPasswordLength}}

\* Addresses with and without each part of local@domain.tld
EmailStrings ==
  {l \o a \o d \o p \o t :
     l \in {"", "a", "a.b", "a b", "a@"}, a \in {"", "@"}, d \in {"", "b", "b\tc", "b.c"},
     p \in {"", "."}, t \in {"", "c", "c\n", "c@d", "co"}}

JsonKeys == {"message", "user\"Sub"}

JsonScalars ==
  {Null, Num(0), Num(7), Num(3600), Bool(TRUE), Bool(FALSE),
   Str(""), Str("acc.jwt.1"), Str("say \"hi\""), Str("a\\b"), Str("two\nlines\tand a tab"),
   Str("\\\""), Str("{\"a\":1}"), Str("null")}

JsonArrays == {Arr(<<>>), Arr(<<"a">>), Arr(<<"a,b", "c\"d", "">>)}

\* The JSON values nested at most n objects deep
RECURSIVE JsonValues(_)
JsonValues(n) ==
  IF n = 0 THEN JsonScalars \cup JsonArrays
  ELSE JsonValues(n - 1)
       \cup {Obj(<<>>)}
       \cup {Obj(<< <<k, v>> >>) : k \in JsonKeys, v \in JsonValues(n - 1)}
       \cup {Obj(<< <<"accessToken", v>>, <<"expiresIn", w>> >>) :
               v \in JsonValues(n - 1), w \in {Num(3600), Arr(<<"a">>)}}

\* The values a helper is applied to; each of them is JSON-representable
HelperInputs ==
  {Str(s) : s \in PasswordStrings \cup EmailStrings} \cup JsonValues(MaxJsonDepth)

\* The statusCode argument of a call: left out, or a number
StatusArguments == {Undef, Num(200), Num(201), Num(404)}

\* formatSuccessResponse(data, statusCode) as called: a statusCode that is
\* left out takes the default of the parameter
formatSuccessResponseCall(data, statusCode) ==
  formatSuccessResponse(data, IF statusCode.t = "undefined" THEN 200 ELSE statusCode.n)

HelperInit ==
  /\ pc = "idle"
  /\ handlerName = "none"
  /\ event = NoEvent
  /\ env = [USER_POOL_ID |-> Undef, CLIENT_ID |-> Undef, REGION |-> Undef, AWS_REGION |-> Undef]
  /\ constructed = FALSE
  /\ calls = <<>>
  /\ logs = <<>>
  /\ response = NoResponse
  /\ reply = NoReply
  /\ input \in HelperInputs
  /\ applied = NotApplied
  /\ ToolAtRest

Apply(fn, statusCode, result) ==
  /\ applied.fn = "none"
  /\ applied' = [fn |-> fn, statusCode |-> statusCode, result |-> result]
  /\ UNCHANGED <<pc, handlerName, event, env, constructed, calls, logs, response, reply, input, toolVars>>

ApplyValidatePassword == Apply("validatePassword", Undef, validatePassword(input))

ApplyValidateEmail == Apply("validateEmail", Undef, validateEmail(input))

ApplyFormatSuccessResponse ==
  \E statusCode \in StatusArguments :
    Apply("formatSuccessResponse", statusCode, formatSuccessResponseCall(input, statusCode))

\* The result is dropped; the helpers keep nothing between calls
Forget ==
  /\ applied.fn # "none"
  /\ applied' = NotApplied
  /\ UNCHANGED <<pc, handlerName, event, env, constructed, calls, logs, response, reply, input, toolVars>>

HelperNext ==
  \/ ApplyValidatePassword
  \/ ApplyValidateEmail
  \/ ApplyFormatSuccessResponse
  \/ Forget

HelperSpec == HelperInit /\ [][HelperNext]_vars

-----------------------------------------------------------------------------
(* Properties of the helpers                                               *)

AppliedTo(fn) == applied.fn = fn /\ IsString(input)

HasCharIn(str, class) == \E i \in 1..Len(str) : CharAt(str, i) \in class

\* C17: for every password string, validatePassword answers valid exactly
\* when the string has at least 12 characters and an uppercase letter, a
\* lowercase letter, a digit and a character that is none of these;
\* otherwise errors holds the messages of the violated rules and no other,
\* each once, in the order length, uppercase, lowercase, numbers, symbols,
\* so that the empty string gets all five.
C17_PasswordRulesExact ==
  AppliedTo("validatePassword") =>
    /\ applied.result.valid <=>
         /\ Len(input.s) >= 12
         /\ HasCharIn(input.s, UpperSet)
         /\ HasCharIn(input.s, LowerSet)
         /\ HasCharIn(input.s, DigitSet)
         /\ \E i \in 1..Len(input.s) :
              CharAt(input.s, i) \notin (UpperSet \cup LowerSet \cup DigitSet)
    /\ applied.result.errors = ViolatedRules(input.s)
    /\ applied.result.valid <=> applied.result.errors = <<>>
    /\ input.s = "" =>
         applied.result.errors =
           <<"Password must be at least 12 characters",
             "Password must contain uppercase letters",
             "Password must contain lowercase letters",
             "Password must contain numbers",
             "Password must contain symbols">>

\* The empty string gets all five messages, and a password that only lacks
\* the length gets one
C17_Witness ==
  /\ AppliedTo("validatePassword")
  /\ \/ (input.s = "" /\ Len(applied.result.errors) = 5)
     \/ (Len(input.s) = 11 /\ applied.result.errors = <<"Password must be at least 12 characters">>)

\* The positions of the character c in str
PositionsOf(str, c) == {i \in 1..Len(str) : CharAt(str, i) = c}

HasWhitespace(str) == \E i \in 1..Len(str) : CharAt(str, i) \in {" ", "\t", "\n"}

\* local@domain.tld : one '@', no white space, something before the '@',
\* and after it a '.' with something on both sides
IsAddressForm(str) ==
  /\ Cardinality(PositionsOf(str, "@")) = 1
  /\ ~HasWhitespace(str)
  /\ LET at == MinOf(PositionsOf(str, "@"))
     IN /\ at > 1
        /\ \E dot \in PositionsOf(str, ".") : dot > at + 1 /\ dot < Len(str)

\* C18: validateEmail answers false for every string without an '@',
\* without a '.' after its '@', with white space or with more than one
\* '@', and answers true exactly for the strings of the form
\* local@domain.tld whose three parts are non-empty and free of white
\* space and '@', such as a@b.c.
C18_EmailShapeExact ==
  AppliedTo("validateEmail") =>
    /\ ( \/ PositionsOf(input.s, "@") = {}
         \/ Cardinality(PositionsOf(input.s, "@")) > 1
         \/ HasWhitespace(input.s)
         \/ \A dot \in PositionsOf(input.s, ".") :
              \E at \in PositionsOf(input.s, "@") : dot < at )
       => applied.result = FALSE
    /\ applied.result = IsAddressForm(input.s)
    /\ input.s = "a@b.c" => applied.result = TRUE

C18_Witness ==
  /\ AppliedTo("validateEmail")
  /\ \/ (input.s = "a@b.c" /\ applied.result = TRUE)
     \/ (input.s = "a@b.c@d" /\ applied.result = FALSE)

\* C19: for every JSON-representable value data, the body of
\* formatSuccessResponse(data) read back as JSON is a value equal to data
\* in every part, and the statusCode of the envelope is the statusCode
\* argument, 200 when it is left out.
C19_SuccessBodyRoundTrip ==
  applied.fn = "formatSuccessResponse" =>
    /\ ParseJsonText(applied.result.body).ok
    /\ ParseJsonText(applied.result.body).value = input
    /\ applied.result.statusCode =
         (IF applied.statusCode = Undef THEN 200 ELSE applied.statusCode.n)

\* An object with an object inside and a string that needs escaping
C19_Witness ==
  /\ applied.fn = "formatSuccessResponse"
  /\ applied.statusCode = Undef
  /\ applied.result.statusCode = 200
  /\ input = Obj(<< <<"user\"Sub", Obj(<< <<"message", Str("a\\b")>> >>)>> >>)

-----------------------------------------------------------------------------
(* The operation of reset-password                                         *)

\* The message field of an error body ("" when the body has no such field)
ErrorMessageOf(body) ==
  LET v == ParseJsonText(body).value
  IN IF ParseJsonText(body).ok /\ IsErrorShape(v) THEN v.props[1][2].props[2][2].s ELSE ""

\* A reset-password request (a JSON body whose fields can be read) whose
\* operation is absent or is neither 'initiate' nor 'confirm'
ResetWithoutValidOperation ==
  /\ Done
  /\ handlerName = "reset-password"
  /\ BodyParses
  /\ event.body.value # Null
  /\ Field("operation") \notin {Str("initiate"), Str("confirm")}

-----------------------------------------------------------------------------
(* What a failed provider call can make of the response                    *)

\* The response the catch block of handler h gives to the error err
CatchResponse(h, ev, err) ==
  CASE h = "signup" -> signupCatch(ev, err).response
    [] h = "verify" -> verifyCatch(ev, err).response
    [] h = "login" -> loginCatch(ev, err).response
    [] h = "mfa" -> mfaCatch(ev, err).response
    [] h = "set-new-password" -> setPasswordCatch(ev, err).response
    [] OTHER -> resetCatch(ev, err).response

\* The secrets of the request
RequestSecrets ==
  StringsOf({Field(f) : f \in {"password", "previousPassword", "proposedPassword",
                                "newPassword", "code", "mfaCode", "session"}})

\* C26: in signup, verify, mfa, set-new-password and reset-password the
\* response to a failed provider call is a function of the error's name
\* alone: the same name with any other message text gives the identical
\* response, and neither the provider's text nor a secret of the request
\* appears in the response.
C26_FailureResponseFromNameOnly ==
  (Done /\ GatewayFailed
        /\ handlerName \in {"signup", "verify", "mfa", "set-new-password", "reset-password"}) =>
    /\ \A m \in ErrorMessages \cup {""} :
         response = CatchResponse(handlerName, event, [name |-> reply.error.name, message |-> m])
    /\ ~Contains(response.body, reply.error.message)
    /\ \A secret \in RequestSecrets : ~Contains(response.body, secret)

\* A provider text full of sensitive words, answered with the fixed message
\* of the error's name
C26_Witness ==
  /\ Done
  /\ GatewayFailed
  /\ handlerName = "reset-password"
  /\ reply.error.name = "CodeMismatchException"
  /\ reply.error.message = "Invalid Password, access Token or SESSION"
  /\ response.statusCode = 400

\* C27: login answers 200 only when the provider's authenticate call
\* itself succeeded; when that call fails, whatever the error's name and
\* message text, the status of the response is not 200.
C27_LoginFailureNever200 ==
  (Done /\ handlerName = "login" /\ GatewayFailed) => response.statusCode # 200

\* The token bundle of a response body, if the body is one
BundleOf(body) ==
  LET v == ParseJsonText(body).value
  IN IF ParseJsonText(body).ok /\ v.t = "object" /\ GetProp(v, "accessToken") # Undef
       THEN [is |-> TRUE, value |-> v] ELSE [is |-> FALSE, value |-> Undef]

\* C28: when login or mfa answers 200 with a token bundle, its accessToken,
\* idToken and refreshToken are the non-empty tokens the provider issued
\* for this call; a provider reply without an authentication result (a
\* further challenge, say) never gives a 200 token bundle.
C28_BundleCarriesIssuedTokens ==
  (Done /\ handlerName \in {"login", "mfa"} /\ response.statusCode = 200
        /\ BundleOf(response.body).is) =>
    /\ reply.received /\ reply.ok
    /\ GetProp(reply.output, "AuthenticationResult") # Undef
    /\ \A f \in {<<"accessToken", "AccessToken">>, <<"idToken", "IdToken">>,
                 <<"refreshToken", "RefreshToken">>} :
         /\ GetProp(BundleOf(response.body).value, f[1]) =
              GetProp(GetProp(reply.output, "AuthenticationResult"), f[2])
         /\ IsString(GetProp(BundleOf(response.body).value, f[1]))
         /\ GetProp(BundleOf(response.body).value, f[1]).s # ""

-----------------------------------------------------------------------------
(* Progress: the provider answers every call that is awaited               *)

\* The replies the provider can give to the call of handler h
RepliesOf(h) ==
  CASE h = "signup" -> SignUpReplies
    [] h = "login" -> LoginReplies
    [] h = "mfa" -> MfaReplies
    [] OTHER -> VoidReplies

\* What handler h does with the reply rep to its call
ResumeOf(h, ev, rep) ==
  CASE h = "signup" -> signupResume(ev, rep)
    [] h = "verify" -> verifyResume(ev, rep)
    [] h = "login" -> loginResume(ev, rep)
    [] h = "mfa" -> mfaResume(ev, rep)
    [] h = "set-new-password" -> setPasswordResume(ev, rep)
    [] OTHER -> resetResume(ev, rep)

\* The provider answers the call that is awaited, with an output or with an
\* error; the steps of Next that do this are the Reply steps, one of which
\* is enabled whenever an invocation is awaiting.  The claim assumes that
\* the awaited call returns or throws: weak fairness of this step.
ProviderAnswers == pc = "awaiting" /\ pc' = "done"

LiveSpec == Init /\ [][Next]_vars /\ WF_pc(ProviderAnswers)

\* C30: an invocation whose provider call is answered (with an output or
\* with an error) returns a response; an invocation that was refused at
\* the parse, at the checks of the fields and of the policy or at the
\* configuration check has returned without any provider call; and an
\* invocation waits only for the one provider call it has made.
C30_InvocationReturns ==
  /\ [](pc = "awaiting" => (constructed /\ Len(calls) = 1 /\ ~reply.received))
  /\ []((Done /\ ~reply.received) => calls = <<>>)
  /\ []((Done /\ reply.received) => (Len(calls) = 1 /\ response # NoResponse))
  /\ ((pc = "awaiting") ~> Done)

C30_Witness ==
  /\ Done
  /\ handlerName = "set-new-password"
  /\ reply.received
  /\ ~reply.ok
  /\ Len(calls) = 1
  /\ response.statusCode = 500

-----------------------------------------------------------------------------
(* Concurrent invocations: several invocations in flight in one process,   *)
(* interleaved at their awaits                                             *)

\* Invocations in flight at the same time
MaxInvocations == 2

Invocations == 1..MaxInvocations

\* What handler h does with ev up to its return or its awaited call
StartOf(h, ev, e) ==
  CASE h = "signup" -> signupStart(ev, e)
    [] h = "verify" -> verifyStart(ev, e)
    [] h = "login" -> loginStart(ev, e)
    [] h = "mfa" -> mfaStart(ev, e)
    [] h = "set-new-password" -> setPasswordStart(ev, e)
    [] OTHER -> resetStart(ev, e)

\* Requests of the concurrent invocations: one that reaches the provider
\* for every handler, both operations of reset-password, and for login
\* also a request without password and one that is not JSON
ConcurrentBodies(h) ==
  CASE h = "signup" ->
         {JsonBody(Obj(<< <<"username", Str("alice")>>, <<"password", Str("Str0ng!Passw0rd")>>,
                          <<"email", Str("a@b.c")>>, <<"attributes", Undef>> >>))}
    [] h = "verify" ->
         {JsonBody(Obj(<< <<"username", Str("alice")>>, <<"code", Str("123456")>> >>))}
    [] h = "login" ->
         {JsonBody(Obj(<< <<"username", Str("alice")>>, <<"password", p>> >>)) :
            p \in {Undef, Str("Str0ng!Passw0rd")}}
         \cup {[syntax |-> "malformed", value |-> Undef]}
    [] h = "mfa" ->
         {JsonBody(Obj(<< <<"session", Str("req-sess-1")>>, <<"mfaCode", Str("123456")>>,
                          <<"username", Str("alice")>> >>))}
    [] h = "set-new-password" ->
         {JsonBody(Obj(<< <<"username", Str("alice")>>, <<"previousPassword", Str("0ld!Passw0rd#")>>,
                          <<"proposedPassword", Str("Str0ng!Passw0rd")>>,
                          <<"session", Str("req-sess-1")>> >>))}
    [] OTHER ->
         {JsonBody(Obj(<< <<"operation", Str("initiate")>>, <<"username", Str("alice")>>,
                          <<"code", Undef>>, <<"newPassword", Undef>> >>)),
          JsonBody(Obj(<< <<"operation", Str("confirm")>>, <<"username", Str("alice")>>,
                          <<"code", Str("123456")>>, <<"newPassword", Str("Str0ng!Passw0rd")>> >>))}

\* The event of invocation s: every invocation has its own request id
ConcurrentEvent(s, body) ==
  [body |-> body,
   requestContext |-> [requestId |-> "req-" \o NumToStr(s),
                       identity |-> [sourceIp |-> "203.0.113.7"]]]

\* Replies of the provider to the concurrent invocations: one failure and
\* the outputs, of the challenges the one with session "s"
ConcurrentReplies(h) ==
  {rep \in RepliesOf(h) :
     IF rep.ok THEN GetProp(rep.output, "Session") \in {Undef, Str("s")}
     ELSE rep.error = [name |-> "NotAuthorizedException", message |-> "User does not exist."]}

\* One process environment for all invocations: complete, or without pool
ConcurrentEnvs == {e \in Envs : e.CLIENT_ID # Undef /\ e.REGION # Undef}

\* The state of invocation s: its locals, its gateway and what it wrote
InvocationState(s) ==
  <<pc[s], handlerName[s], event[s], constructed[s], calls[s], logs[s], response[s], reply[s]>>

\* OwnEvent that reads the event of another invocation in flight, as a
\* handler keeping the event in a variable of the module would
OwnEvent_OfModule(s) ==
  IF \E t \in Invocations : t # s /\ pc[t] # "idle"
    THEN event[CHOOSE t \in Invocations : t # s /\ pc[t] # "idle"]
    ELSE event[s]

\* The event parameter of invocation s
OwnEvent(s) == event[s]

ConcurrentInit ==
  /\ pc = [s \in Invocations |-> "idle"]
  /\ handlerName = [s \in Invocations |-> "none"]
  /\ event = [s \in Invocations |-> NoEvent]
  /\ env \in ConcurrentEnvs
  /\ constructed = [s \in Invocations |-> FALSE]
  /\ calls = [s \in Invocations |-> <<>>]
  /\ logs = [s \in Invocations |-> <<>>]
  /\ response = [s \in Invocations |-> NoResponse]
  /\ reply = [s \in Invocations |-> NoReply]
  /\ input = NoInput
  /\ applied = NotApplied
  /\ ToolAtRest

\* Invocation s of a handler starts and runs, without interruption, up to
\* its return or up to its awaited provider call
Invoke(s) ==
  \E h \in Handlers : \E b \in ConcurrentBodies(h) :
    LET ev == ConcurrentEvent(s, b)
        out == StartOf(h, ev, env)
    IN /\ pc[s] = "idle"
       /\ pc' = [pc EXCEPT ![s] = IF out.done THEN "done" ELSE "awaiting"]
       /\ handlerName' = [handlerName EXCEPT ![s] = h]
       /\ event' = [event EXCEPT ![s] = ev]
       /\ constructed' = [constructed EXCEPT ![s] = out.constructed]
       /\ calls' = [calls EXCEPT ![s] = out.calls]
       /\ logs' = [logs EXCEPT ![s] = out.logs]
       /\ response' = [response EXCEPT ![s] = out.response]
       /\ UNCHANGED <<env, reply, input, applied, toolVars>>

\* The provider answers the call of invocation s, which runs to its return
Answer(s) ==
  \E rep \in ConcurrentReplies(handlerName[s]) :
    LET out == ResumeOf(handlerName[s], OwnEvent(s), rep)
    IN /\ pc[s] = "awaiting"
       /\ pc' = [pc EXCEPT ![s] = "done"]
       /\ reply' = [reply EXCEPT ![s] = rep]
       /\ logs' = [logs EXCEPT ![s] = logs[s] \o out.logs]
       /\ response' = [response EXCEPT ![s] = out.response]
       /\ UNCHANGED <<handlerName, event, env, constructed, calls, input, applied, toolVars>>

\* Invocation s is over; nothing of it is kept
Return(s) ==
  /\ pc[s] = "done"
  /\ pc' = [pc EXCEPT ![s] = "idle"]
  /\ handlerName' = [handlerName EXCEPT ![s] = "none"]
  /\ event' = [event EXCEPT ![s] = NoEvent]
  /\ constructed' = [constructed EXCEPT ![s] = FALSE]
  /\ calls' = [calls EXCEPT ![s] = <<>>]
  /\ logs' = [logs EXCEPT ![s] = <<>>]
  /\ response' = [response EXCEPT ![s] = NoResponse]
  /\ reply' = [reply EXCEPT ![s] = NoReply]
  /\ UNCHANGED <<env, input, applied, toolVars>>

ConcurrentNext == \E s \in Invocations : Invoke(s) \/ Answer(s) \/ Return(s)

ConcurrentSpec == ConcurrentInit /\ [][ConcurrentNext]_vars

\* What invocation s has of its own event, the environment and the reply
\* to its own call, when it runs alone
AloneCalls(s) == StartOf(handlerName[s], event[s], env).calls

AloneResponse(s) ==
  IF reply[s].received
    THEN ResumeOf(handlerName[s], event[s], reply[s]).response
    ELSE StartOf(handlerName[s], event[s], env).response

-----------------------------------------------------------------------------
(* The configuration tool (mcp-servers/cognito-mcp/server.js): one module- *)
(* level configState, and a request handler that serves one tool call at a *)
(* time without awaiting anything.  The text of a tool response is         *)
(* JSON.stringify(payload, null, 2); the model keeps the payload.  The     *)
(* template text is written without the indentation.                       *)

\* obj[name] = value: an own property keeps its place, a new one is added
\* at the end
SetProp(obj, name, value) ==
  IF \E i \in 1..Len(obj.props) : obj.props[i][1] = name
    THEN Obj([i \in 1..Len(obj.props) |->
                IF obj.props[i][1] = name THEN <<name, value>> ELSE obj.props[i]])
    ELSE Obj(Append(obj.props, <<name, value>>))

\* The property name with value, when cond holds
PropIf(cond, name, value) == IF cond THEN << <<name, value>> >> ELSE <<>>

\* v === true, v !== false
IsTrue(v) == v = Bool(TRUE)
NotFalse(v) == v # Bool(FALSE)

\* The Properties of the UserPool resource
userPoolProperties(stackName, config) ==
  LET authMethod == GetProp(config, "authMethod")
      mfaConfig == GetProp(config, "mfaConfig")
      passwordPolicy == GetProp(config, "passwordPolicy")
      advancedSecurity == GetProp(config, "advancedSecurity")
      emailConfig == GetProp(config, "emailConfig")
  IN Obj(
    << <<"UserPoolName", Str(ToStr(stackName) \o "-${Environment}")>>,
       <<"UsernameConfiguration", Obj(<< <<"CaseSensitive", Bool(FALSE)>> >>)>> >>
    \o PropIf(Truthy(authMethod), "UsernameAttributes",
              OrElse(GetProp(authMethod, "usernameAttributes"), Arr(<<>>)))
    \o PropIf(Truthy(authMethod), "AliasAttributes",
              OrElse(GetProp(authMethod, "aliasAttributes"), Arr(<<>>)))
    \o PropIf(Truthy(mfaConfig), "MfaConfiguration",
              OrElse(GetProp(mfaConfig, "mode"), Str("OFF")))
    \o PropIf(Truthy(mfaConfig) /\ GetProp(mfaConfig, "mode") # Str("OFF"), "EnabledMfas",
              OrElse(GetProp(mfaConfig, "methods"), Arr(<<"SOFTWARE_TOKEN_MFA">>)))
    \o PropIf(Truthy(passwordPolicy), "Policies",
         Obj(<< <<"PasswordPolicy",
           Obj(<< <<"MinimumLength", OrElse(GetProp(passwordPolicy, "minimumLength"), Num(12))>>,
                  <<"RequireUppercase", Bool(NotFalse(GetProp(passwordPolicy, "requireUppercase")))>>,
                  <<"RequireLowercase", Bool(NotFalse(GetProp(passwordPolicy, "requireLowercase")))>>,
                  <<"RequireNumbers", Bool(NotFalse(GetProp(passwordPolicy, "requireNumbers")))>>,
                  <<"RequireSymbols", Bool(NotFalse(GetProp(passwordPolicy, "requireSymbols")))>>,
                  <<"TemporaryPasswordValidityDays",
                    OrElse(GetProp(passwordPolicy, "tempPasswordValidity"), Num(7))>> >>)>> >>))
    \o PropIf(Truthy(advancedSecurity), "UserPoolAddOns",
         Obj(<< <<"AdvancedSecurityMode", OrElse(GetProp(advancedSecurity, "mode"), Str("OFF"))>> >>))
    \o PropIf(Truthy(emailConfig), "EmailConfiguration",
         IF GetProp(emailConfig, "type") = Str("SES")
           THEN Obj(<< <<"EmailSendingAccount", Str("DEVELOPER")>>,
                       <<"SourceArn", GetProp(emailConfig, "sesSourceArn")>>,
                       <<"From", GetProp(emailConfig, "fromEmail")>>,
                       <<"ReplyToEmailAddress", GetProp(emailConfig, "replyToEmail")>> >>)
           ELSE Obj(<< <<"EmailSendingAccount", Str("COGNITO_DEFAULT")>> >>)))

\* The UserPoolClient resource
userPoolClient(stackName, appClient) ==
  Obj(<< <<"Type", Str("AWS::Cognito::UserPoolClient")>>,
         <<"Properties",
           Obj(<< <<"ClientName",
                    OrElse(GetProp(appClient, "name"), Str(ToStr(stackName) \o "-client"))>>,
                  <<"UserPoolId", Obj(<< <<"Ref", Str("UserPool")>> >>)>>,
                  <<"GenerateSecret", Bool(IsTrue(GetProp(appClient, "generateSecret")))>>,
                  <<"RefreshTokenValidity",
                    OrElse(GetProp(appClient, "refreshTokenValidity"), Num(30))>>,
                  <<"AccessTokenValidity",
                    OrElse(GetProp(appClient, "accessTokenValidity"), Num(1))>>,
                  <<"IdTokenValidity", OrElse(GetProp(appClient, "idTokenValidity"), Num(1))>>,
                  <<"TokenValidityUnits",
                    Obj(<< <<"RefreshToken", Str("days")>>, <<"AccessToken", Str("hours")>>,
                           <<"IdToken", Str("hours")>> >>)>>,
                  <<"ExplicitAuthFlows",
                    OrElse(GetProp(appClient, "authFlows"),
                           Arr(<<"ALLOW_USER_SRP_AUTH", "ALLOW_REFRESH_TOKEN_AUTH">>))>>,
                  <<"PreventUserExistenceErrors", Str("ENABLED")>>,
                  <<"EnableTokenRevocation", Bool(TRUE)>> >>
               \o PropIf(Truthy(GetProp(appClient, "callbackUrls")), "CallbackURLs",
                         GetProp(appClient, "callbackUrls"))
               \o PropIf(Truthy(GetProp(appClient, "logoutUrls")), "LogoutURLs",
                         GetProp(appClient, "logoutUrls")))>> >>)

\* The UserPoolDomain resource
userPoolDomain(domain) ==
  Obj(<< <<"Type", Str("AWS::Cognito::UserPoolDomain")>>,
         <<"Properties",
           Obj(<< <<"Domain", GetProp(domain, "prefix")>>,
                  <<"UserPoolId", Obj(<< <<"Ref", Str("UserPool")>> >>)>> >>
               \o PropIf(Truthy(GetProp(domain, "customDomain")), "CustomDomainConfig",
                    Obj(<< <<"CertificateArn", GetProp(domain, "certificateArn")>> >>)))>> >>)

\* An entry of Outputs
templateOutput(description, value, exportName) ==
  Obj(<< <<"Description", Str(description)>>, <<"Value", value>>,
         <<"Export", Obj(<< <<"Name", Str("${AWS::StackName}-" \o exportName)>> >>)>> >>)

\* templateResources that writes the client whatever appClient is
templateResources_ClientAlways(stackName, config) ==
  Obj(<< <<"UserPool", Obj(<< <<"Type", Str("AWS::Cognito::UserPool")>>,
                              <<"Properties", userPoolProperties(stackName, config)>> >>)>>,
         <<"UserPoolClient", userPoolClient(stackName, GetProp(config, "appClient"))>> >>
      \o PropIf(Truthy(GetProp(config, "domain")), "UserPoolDomain",
                userPoolDomain(GetProp(config, "domain"))))

\* template.Resources
templateResources(stackName, config) ==
  Obj(<< <<"UserPool", Obj(<< <<"Type", Str("AWS::Cognito::UserPool")>>,
                              <<"Properties", userPoolProperties(stackName, config)>> >>)>> >>
      \o PropIf(Truthy(GetProp(config, "appClient")), "UserPoolClient",
                userPoolClient(stackName, GetProp(config, "appClient")))
      \o PropIf(Truthy(GetProp(config, "domain")), "UserPoolDomain",
                userPoolDomain(GetProp(config, "domain"))))

\* template.Outputs
templateOutputs(config) ==
  Obj(<< <<"UserPoolId",
           templateOutput("Cognito User Pool ID", Obj(<< <<"Ref", Str("UserPool")>> >>),
                          "UserPoolId")>>,
         <<"UserPoolArn",
           templateOutput("Cognito User Pool ARN",
                          Obj(<< <<"Fn::GetAtt", Arr(<<"UserPool", "Arn">>)>> >>),
                          "UserPoolArn")>> >>
      \o PropIf(Truthy(GetProp(config, "appClient")), "UserPoolClientId",
                templateOutput("Cognito User Pool Client ID",
                               Obj(<< <<"Ref", Str("UserPoolClient")>> >>), "UserPoolClientId"))
      \o PropIf(Truthy(GetProp(config, "domain")), "CognitoDomain",
                templateOutput("Cognito Hosted UI Domain",
                               Obj(<< <<"Ref", Str("UserPoolDomain")>> >>), "CognitoDomain")))

\* The text of the template for config.  The lists of attributes and of
\* triggers are written only when they are not empty.
generateCloudFormationTemplate(stackName, config) ==
  JSONStringify(
    Obj(<< <<"AWSTemplateFormatVersion", Str("2010-09-09")>>,
           <<"Description",
             Str("Cognito User Pool configuration for "
                 \o ToStr(OrElse(OptProp(GetProp(config, "useCase"), "description"),
                                 Str("application"))))>>,
           <<"Parameters",
             Obj(<< <<"Environment",
                      Obj(<< <<"Type", Str("String")>>, <<"Default", Str("dev")>>,
                             <<"AllowedValues", Arr(<<"dev", "staging", "prod">>)>>,
                             <<"Description", Str("Environment name")>> >>)>> >>)>>,
           <<"Resources", templateResources(stackName, config)>>,
           <<"Outputs", templateOutputs(config)>> >>))

\* The sections calculateCompleteness counts
CompletenessSections ==
  <<"useCase", "authMethod", "mfaConfig", "passwordPolicy", "advancedSecurity",
    "emailConfig", "appClient", "domain">>

\* Math.round(k / n * 100)
RoundedPercent(k, n) == (200 * k + n) \div (2 * n)

calculateCompleteness(config) ==
  RoundedPercent(
    Cardinality({i \in 1..Len(CompletenessSections) :
                   GetProp(config, CompletenessSections[i]) # Null}),
    Len(CompletenessSections))

\* The strings of texts whose condition holds, in the order of texts
RECURSIVE Pushed(_)
Pushed(texts) ==
  IF Len(texts) = 0 THEN <<>>
  ELSE (IF texts[1][1] THEN <<texts[1][2]>> ELSE <<>>) \o Pushed(Tail(texts))

validationErrors(config) ==
  Pushed(<< <<~Truthy(GetProp(config, "useCase")), "Use case not defined">>,
            <<~Truthy(GetProp(config, "authMethod")), "Authentication method not configured">>,
            <<~Truthy(GetProp(config, "appClient")), "App client not configured">> >>)

validationWarnings(config) ==
  LET minimumLength == OptProp(GetProp(config, "passwordPolicy"), "minimumLength") IN
  Pushed(<< <<~Truthy(GetProp(config, "passwordPolicy")),
              "Password policy not configured - defaults will be used">>,
            <<OptProp(GetProp(config, "mfaConfig"), "mode") = Str("OFF")
                /\ OptProp(GetProp(config, "useCase"), "type") = Str("production"),
              "MFA is disabled for a production use case - consider enabling">>,
            <<minimumLength.t = "number" /\ minimumLength.n < 12,
              "Password minimum length is less than 12 characters - consider increasing">>,
            <<~Truthy(GetProp(config, "emailConfig")),
              "Email configuration not set - Cognito default will be used (50 emails/day limit)">>,
            <<OptProp(GetProp(config, "advancedSecurity"), "mode") = Str("OFF"),
              "Advanced security is disabled - consider enabling for production">> >>)

validateConfiguration(config) ==
  Obj(<< <<"valid", Bool(Len(validationErrors(config)) = 0)>>,
         <<"errors", Arr(validationErrors(config))>>,
         <<"warnings", Arr(validationWarnings(config))>>,
         <<"completeness", Num(calculateCompleteness(config))>> >>)

\* configState after reset_config: every key becomes [] when its value is
\* an array and null otherwise
ResetState(config) ==
  Obj([i \in 1..Len(config.props) |->
         <<config.props[i][1],
           IF config.props[i][2].t = "array" THEN Arr(<<>>) ELSE Null>>])

\* The response of a tool call
ToolResult(payload) == [isError |-> FALSE, payload |-> payload]

\* get_config's answer that is the whole state whatever section is asked
getConfigResult_WholeState(config, section) == config

\* section ? configState[section] : configState
getConfigResult(config, section) ==
  IF Truthy(section) THEN GetProp(config, ToStr(section)) ELSE config

\* Where generate_cloudformation writes the template
OutputPath == "resources/cognito-stack.yaml"

\* Requests of the client: the sections of the tool's schema that the
\* generated template and the validation read, with data that is an
\* object, a list or null
SaveRequests ==
  {<<"useCase", Obj(<< <<"type", Str("production")>>, <<"description", Str("customer portal")>> >>)>>,
   <<"useCase", Arr(<<>>)>>,
   <<"authMethod", Obj(<< <<"usernameAttributes", Arr(<<"email">>)>> >>)>>,
   <<"mfaConfig", Obj(<<>>)>>,
   <<"mfaConfig", Obj(<< <<"mode", Str("OFF")>> >>)>>,
   <<"mfaConfig", Obj(<< <<"mode", Str("REQUIRED")>>, <<"methods", Arr(<<"SMS_MFA">>)>> >>)>>,
   <<"appClient", Obj(<< <<"name", Str("web")>> >>)>>,
   <<"appClient", Null>>,
   <<"domain", Obj(<< <<"prefix", Str("auth")>> >>)>>,
   <<"customAttributes", Obj(<<>>)>>,
   <<"customAttributes", Arr(<<>>)>>}

SavedSections == {r[1] : r \in SaveRequests}

StackNames == {Str("auth")}

WriteErrors == {"EACCES: permission denied"}

ConfigInit ==
  /\ pc = "idle"
  /\ handlerName = "none"
  /\ event = NoEvent
  /\ env = [USER_POOL_ID |-> Undef, CLIENT_ID |-> Undef, REGION |-> Undef, AWS_REGION |-> Undef]
  /\ constructed = FALSE
  /\ calls = <<>>
  /\ logs = <<>>
  /\ response = NoResponse
  /\ reply = NoReply
  /\ input = NoInput
  /\ applied = NotApplied
  /\ ToolAtRest

\* The handler serves the call: the state becomes state and the response
\* is result
Serve(call, state, result) ==
  /\ toolCall.name = "none"
  /\ toolCall' = call
  /\ configState' = state
  /\ toolResult' = result
  /\ UNCHANGED handlerVars

save_config ==
  \E r \in SaveRequests :
    LET state == SetProp(configState, r[1], r[2]) IN
    /\ Serve([NoToolCall EXCEPT !.name = "save_config", !.section = Str(r[1]), !.data = r[2]],
             state,
             ToolResult(Obj(<< <<"success", Bool(TRUE)>>,
                               <<"message", Str("Configuration section '" \o r[1]
                                                \o "' saved successfully")>>,
                               <<"currentState", state>> >>)))
    /\ savedSinceReset' = savedSinceReset \cup {r[1]}

get_config ==
  \E section \in {Undef} \cup {Str(x) : x \in SavedSections} :
    /\ Serve([NoToolCall EXCEPT !.name = "get_config", !.section = section],
             configState, ToolResult(getConfigResult(configState, section)))
    /\ UNCHANGED savedSinceReset

\* The template is generated and written to the file; the write can fail
generate_cloudformation ==
  \E stackName \in StackNames, written \in BOOLEAN, err \in WriteErrors :
    LET template == generateCloudFormationTemplate(stackName, configState) IN
    /\ Serve([NoToolCall EXCEPT !.name = "generate_cloudformation", !.stackName = stackName],
             configState,
             ToolResult(
               IF written
                 THEN Obj(<< <<"success", Bool(TRUE)>>,
                             <<"message", Str("CloudFormation template generated successfully")>>,
                             <<"outputPath", Str(OutputPath)>>,
                             <<"template", Str(template)>> >>)
                 ELSE Obj(<< <<"success", Bool(FALSE)>>,
                             <<"error", Str("Failed to write template: " \o err)>>,
                             <<"template", Str(template)>> >>)))
    /\ UNCHANGED savedSinceReset

reset_config ==
  /\ Serve([NoToolCall EXCEPT !.name = "reset_config"], ResetState(configState),
           ToolResult(Obj(<< <<"success", Bool(TRUE)>>,
                             <<"message", Str("Configuration reset successfully")>> >>)))
  /\ savedSinceReset' = {}

validate_config ==
  /\ Serve([NoToolCall EXCEPT !.name = "validate_config"], configState,
           ToolResult(validateConfiguration(configState)))
  /\ UNCHANGED savedSinceReset

\* The response is sent; the handler is ready for the next request
Respond ==
  /\ toolCall.name # "none"
  /\ toolCall' = NoToolCall
  /\ toolResult' = NoToolResult
  /\ UNCHANGED <<configState, savedSinceReset>>
  /\ UNCHANGED handlerVars

ConfigNext ==
  \/ save_config
  \/ get_config
  \/ generate_cloudformation
  \/ reset_config
  \/ validate_config
  \/ Respond

ConfigSpec == ConfigInit /\ [][ConfigNext]_vars

-----------------------------------------------------------------------------
(* Properties of the configuration tool                                    *)

\* The tool whose call has just been served
Served(name) == toolCall.name = name

\* The value of a section of the current state
Section(name) == GetProp(configState, name)

\* The text of the response and the value a client reads from it
ResponseText == JSONStringify(toolResult.payload)

ResponseValue == ParseJsonText(ResponseText).value

\* C22: whatever was saved before, reset_config leaves the state at its
\* initial value: customAttributes and lambdaTriggers are empty lists and
\* every other section is null.
C22_ResetRestoresInitialState ==
  Served("reset_config") =>
    /\ configState = InitialConfigState
    /\ \A i \in 1..Len(configState.props) :
         configState.props[i][2] =
           (IF configState.props[i][1] \in {"customAttributes", "lambdaTriggers"}
              THEN Arr(<<>>) ELSE Null)

\* round(100 * k / n), halves upwards
PercentOf(k, n) == CHOOSE p \in 0..100 : 2 * n * p <= 200 * k + n /\ 200 * k + n < 2 * n * (p + 1)

EightSections ==
  {"useCase", "authMethod", "mfaConfig", "passwordPolicy", "advancedSecurity",
   "emailConfig", "appClient", "domain"}

\* C23: validate_config reports valid = true exactly when useCase,
\* authMethod and appClient are all set in the current state, and a
\* completeness of round(100 * k / 8), k being the number of the eight
\* sections saved since the last reset; right after reset_config the
\* completeness is 0.
C23_ValidationReport ==
  Served("validate_config") =>
    /\ GetProp(toolResult.payload, "valid") =
         Bool(\A x \in {"useCase", "authMethod", "appClient"} : Section(x) # Null)
    /\ GetProp(toolResult.payload, "completeness") =
         Num(PercentOf(Cardinality(EightSections \cap savedSinceReset), 8))

\* C24: get_config(section) after save_config(section, data) returns data;
\* save_config changes the named section only; get_config, validate_config
\* and generate_cloudformation leave the configuration state as it is (and
\* so does the sending of a response).
C24_SaveThenGetAndFrame ==
  /\ []((Served("get_config") /\ toolCall.section # Undef) =>
          /\ ~toolResult.isError
          /\ ParseJsonText(ResponseText).ok
          /\ ResponseValue = Section(toolCall.section.s))
  /\ [][/\ Served("save_config")' =>
             /\ GetProp(configState', toolCall'.section.s) = toolCall'.data
             /\ \A i \in 1..Len(configState.props) :
                  configState.props[i][1] # toolCall'.section.s =>
                    /\ i <= Len(configState'.props)
                    /\ configState'.props[i] = configState.props[i]
             /\ Len(configState'.props) = Len(configState.props)
        /\ (toolCall'.name \in {"none", "get_config", "validate_config", "generate_cloudformation"})
             => configState' = configState]_vars

\* The multi-factor settings saved last are read back
C24_Witness ==
  /\ Served("get_config")
  /\ toolCall.section = Str("mfaConfig")
  /\ "mfaConfig" \in savedSinceReset
  /\ ResponseValue = Obj(<< <<"mode", Str("REQUIRED")>>, <<"methods", Arr(<<"SMS_MFA">>)>> >>)
  /\ Section("useCase") = Arr(<<>>)

\* The template a client reads from the response of generate_cloudformation
Template == ParseJsonText(GetProp(toolResult.payload, "template").s)

Has(v, name) == GetProp(v, name) # Undef

C29_EnabledMfasOnlyWhenMfaOn ==
  Served("generate_cloudformation") =>
    LET properties ==
          GetProp(GetProp(GetProp(Template.value, "Resources"), "UserPool"), "Properties")
    IN /\ GetProp(properties, "MfaConfiguration") = Str("OFF") => ~Has(properties, "EnabledMfas")
       /\ Has(properties, "EnabledMfas") =>
            GetProp(properties, "MfaConfiguration") \in {Str("OPTIONAL"), Str("REQUIRED")}

====
